---- MODULE Spec2Model ----
(***************************************************************************)
(* Resumable paginated multi-source search: the four connectors            *)
(* (api_1_ieee.py, api_2_springer.py, api_3_scopus.py, api_4_pubmed.py)    *)
(* and the worker that drives them (api_0_run_all.py, APIWorker).          *)
(*                                                                         *)
(* A term is a string of words separated by single spaces; it is modelled  *)
(* as the sequence of its words, so "A or B" is <<"A", "or", "B">>.        *)
(* Indices are 0-based as in the code; sequences are 1-based, hence the    *)
(* "+ 1" wherever a list is subscripted.                                   *)
(***************************************************************************)
EXTENDS Integers, Sequences, FiniteSets, TLC

\* ------------------------------------------------------------------ bounds
MaxTerms == 2
MaxKeywords == 2
MaxRestarts == 1
MaxNon200 == 1
MaxNoData == 1

\* ------------------------------------------------------- program constants
max_requests_per_day == 500
max_records == 25
retmax == 100

Backends == {"IEEE", "Springer", "Scopus", "PubMed"}

\* Variant: every connector carries the daily-budget guard.
Budgeted_everywhere(b) == b \in {"IEEE", "Springer", "Scopus", "PubMed"}

\* The backends whose get_data_from_url carries the daily-budget guard.
Budgeted(b) == b \in {"Springer", "Scopus", "PubMed"}

\* The cursor/next-link backends.
Cursor(b) == b \in {"Springer", "Scopus"}

\* A file on disk is <<>> when absent and << document >> when present.
NoFile == <<>>
Exists(f) == f # NoFile
Content(f) == f[1]

\* current_url = None
None == 0

\* ------------------------------------------------------------------ inputs
TermPool == { <<"A">>, <<"B">>, <<"A", "or", "B">> }
KeywordPool == {"x", "y"}

RECURSIVE SeqsUpTo(_, _)
SeqsUpTo(S, n) ==
    IF n = 0 THEN { <<>> }
    ELSE LET shorter == SeqsUpTo(S, n - 1)
         IN  shorter \cup { Append(s, e) : s \in shorter, e \in S }

Range(s) == { s[p] : p \in 1..Len(s) }

\* ----------------------------------------------------------- Term Expander
\* str.split(" or "): a word "or" is a separator when it has a word on both
\* sides and the word before it was not itself consumed as a separator
\* (Python scans left to right without overlap).
RECURSIVE IsSep_any_case(_, _)
IsSep_any_case(t, p) ==
    /\ p > 1
    /\ p < Len(t)
    /\ t[p] \in {"or", "OR"}
    /\ ~IsSep_any_case(t, p - 1)

RECURSIVE IsSep(_, _)
IsSep(t, p) ==
    /\ p > 1
    /\ p < Len(t)
    /\ t[p] = "or"
    /\ ~IsSep(t, p - 1)

RECURSIVE SplitFrom(_, _, _)
SplitFrom(t, p, cur) ==
    IF p > Len(t) THEN << cur >>
    ELSE IF IsSep(t, p) THEN << cur >> \o SplitFrom(t, p + 1, <<>>)
    ELSE SplitFrom(t, p + 1, Append(cur, t[p]))

split(t) == SplitFrom(t, 1, <<>>)

\* ------------------------------------------------- the deterministic stub
\* The number of non-empty result pages the backend holds for a cell.
StubSize(name, kw) ==
    IF kw = "y" THEN 0
    ELSE IF name = <<"B">> THEN 1 ELSE 2

\* The total number of results every response of the cell reports (IEEE
\* total_records, Springer result[0].total, Scopus opensearch:totalResults).
StubTotal(name, kw) ==
    IF StubSize(name, kw) = 0 THEN 0
    ELSE IF StubSize(name, kw) = 1 THEN max_records
    ELSE max_records * (StubSize(name, kw) - 1) + 5

\* PubMed: how many ids the id-search holds for the cell.
StubIds(name, kw) ==
    IF StubSize(name, kw) = 0 THEN 0
    ELSE IF StubSize(name, kw) = 1 THEN retmax
    ELSE retmax * (StubSize(name, kw) - 1) + 1

\* The normalized records the connector extracts from one response: the stub
\* serves one record per non-empty page, tagged with the page it came from
\* (the code never compares the number of records of a page with the
\* reported total).
StubRecords(name, kw, pageNo) ==
    IF pageNo <= StubSize(name, kw) THEN << pageNo >> ELSE <<>>

\* All the records a complete run of the cell collects: its pages in order.
RECURSIVE RecordsFrom(_, _, _)
RecordsFrom(name, kw, pageNo) ==
    IF pageNo > StubSize(name, kw) THEN <<>>
    ELSE StubRecords(name, kw, pageNo) \o RecordsFrom(name, kw, pageNo + 1)

CellRecords(name, kw) == RecordsFrom(name, kw, 1)

\* PubMed id-search: the ids of the page that starts at offset retstart.
StubIdPage(name, kw, retstart) ==
    LET N    == StubIds(name, kw)
        last == IF retstart + retmax < N THEN retstart + retmax ELSE N
    IN  [p \in 1..(IF last > retstart THEN last - retstart ELSE 0) |-> retstart + p]

\* ------------------------------------------------------------- data model
\* {"Total records": 0, "Records": {kw: [] for kw in keywords}}
FlatEntry(kws) ==
    ("Total records" :> 0) @@ ("Records" :> [kw \in Range(kws) |-> <<>>])

\* {"Total records": 0, "Records": {name: {...flat...} for name in bias_names}}
NestedEntry(bias_names, kws) ==
    ("Total records" :> 0) @@
    ("Records" :> [name \in Range(bias_names) |-> FlatEntry(kws)])

\* if item not in self.all_results: self.all_results[item] = bias_results
EnsureEntry(ar, item, kws) ==
    IF item \in DOMAIN ar THEN ar
    ELSE IF Len(split(item)) = 1
         THEN (item :> FlatEntry(kws)) @@ ar
         ELSE (item :> NestedEntry(split(item), kws)) @@ ar

\* d[key] = value on a dict
Put(d, key, value) == (key :> value) @@ d

\* Single-name merge: Records[keyword] = recs; Total records += len(recs)
MergeFlat(entry, keyword, recs) ==
    ("Total records" :> entry["Total records"] + Len(recs)) @@
    ("Records" :> Put(entry["Records"], keyword, recs))

\* Multi-name merge: the name's flat entry is merged, the term total grows
MergeNested(entry, name, keyword, recs) ==
    ("Total records" :> entry["Total records"] + Len(recs)) @@
    ("Records" :> Put(entry["Records"], name,
                      MergeFlat(entry["Records"][name], keyword, recs)))

MergeCell(ar, item, name, keyword, recs) ==
    IF Len(split(item)) = 1
    THEN Put(ar, item, MergeFlat(ar[item], keyword, recs))
    ELSE Put(ar, item, MergeNested(ar[item], name, keyword, recs))

\* The checkpoint document names the primary index query_index in the IEEE
\* connector and item_index in the other three.
IndexKey(b) == IF b = "IEEE" THEN "query_index" ELSE "item_index"

\* checkpoint_data = {...} as built by search() after a cell
checkpoint_data(b, ar, total, ii, jj, kk, counter, log) ==
    ("all_results" :> ar) @@ ("total_saved_records" :> total) @@
    (IndexKey(b) :> ii) @@ ("keyword_index" :> jj) @@ ("name_index" :> kk) @@
    ("request_counter" :> counter) @@ ("request_log" :> log)

\* One line of request_log: "<Backend> API request #<n>: <url>\n"
LogLine(n, url) == [n |-> n, url |-> url]

\* --------------------------------------------------------------- variables
VARIABLES
    selected,             \* the backends whose checkbox is checked
    query_terms,          \* initial terms (primary), as entered
    keywords,             \* secondary terms, as entered
    item_index,           \* self.item_index (IEEE: self.query_index)
    keyword_index,        \* self.keyword_index
    name_index,           \* self.name_index
    all_results,          \* self.all_results
    total_saved_records,  \* self.total_saved_records
    request_counter,      \* self.request_counter
    request_log,          \* self.request_log, a sequence of lines
    checkpoint_file,      \* checkpoint_<backend>.json
    result_file,          \* the backend's final result file
    pc,                   \* where the backend's worker is
    i, j, k,              \* loop variables of search()
    page,                 \* start_record / current_url / retstart / chunk offset
    total_records,        \* total_records of the cell (IEEE, Springer, Scopus)
    pmids,                \* ids accumulated by get_pmids_for_search_term
    item_results,         \* records_for_keyword / item_results of the cell
    stop_event,           \* APIWorker._stop_event
    \* history variables
    restarts,             \* connectors constructed after a failure
    loaded,               \* the checkpoint file as read by the constructor
    events,               \* cells begun, checkpoints saved, output written, file removed
    merged,               \* records of every cell merged, over the whole run
    issued,               \* responses received since the counter was last zero
    answered,             \* responses received over the whole run
    errors_reported,      \* "Error in API" messages of the current worker
    non_200s,             \* responses with a status other than 200, whole run
    no_data,              \* empty or malformed 200 responses, whole run
    delays,               \* time.sleep(1) calls made before a request, whole run
    cell_start,           \* the length of request_log when the current cell began
    stopped_at,           \* the length of request_log when stop() was called, or -1
    \* the main (GUI) thread
    main_pc,              \* where MainWindow.start_search is
    api_threads,          \* self.api_threads, in the order the workers were started
    thread_request_log,   \* APIWorker.request_log of each worker
    combined_log,         \* combined_api_requests.log
    \* the window's widgets, as the callbacks reach them
    progress_calls,       \* calls of progress_callback by each connector, whole run
    progress_bar,         \* the value of MainWindow.progress_bar
    set_by,               \* the thread whose call last set progress_bar
    terms_observed,       \* the calls of save_terms_callback by each worker
    \* the pure functions, applied to one input
    entry,                \* one entry of a backend response
    records,              \* the records a connector extracts from it
    term,                 \* one primary term
    expansion,            \* the result entry search() creates for it
    first_request,        \* the first request search() builds for one cell
    \* the list of searched terms and the workers' calls of save_searched_term
    searched_terms,       \* MainWindow.searched_terms
    save_index,           \* the position of each worker's loop over the terms
    save_passed           \* the worker passed the membership test, not yet appended

fields == << item_index, keyword_index, name_index, all_results,
             total_saved_records, request_counter, request_log >>
files  == << checkpoint_file, result_file >>
locals == << i, j, k, page, total_records, pmids, item_results >>
inputs == << selected, query_terms, keywords >>
ghosts == << restarts, loaded, events, merged, issued, answered,
             errors_reported, non_200s >>
trail  == << no_data, delays, cell_start, stopped_at >>
main   == << main_pc, api_threads, thread_request_log, combined_log >>
shown  == << progress_calls, progress_bar, set_by >>
ui     == << shown, terms_observed >>
bench  == << entry, records, term, expansion, first_request >>
saved  == << searched_terms, save_index, save_passed >>
vars   == << inputs, fields, files, pc, locals, stop_event, ghosts, trail, main,
             ui, bench, saved >>

Upd(f, b, v) == [f EXCEPT ![b] = v]

\* ------------------------------------------------------------------- Init
\* Before start_search: nothing constructed, no file on disk.
InitState ==
    /\ main_pc = "start_search"
    /\ api_threads = <<>>
    /\ thread_request_log = [b \in Backends |-> <<>>]
    /\ combined_log = NoFile
    /\ item_index = [b \in Backends |-> 0]
    /\ keyword_index = [b \in Backends |-> 0]
    /\ name_index = [b \in Backends |-> 0]
    /\ all_results = [b \in Backends |-> <<>>]
    /\ total_saved_records = [b \in Backends |-> 0]
    /\ request_counter = [b \in Backends |-> 0]
    /\ request_log = [b \in Backends |-> <<>>]
    /\ result_file = [b \in Backends |-> NoFile]
    /\ pc = [b \in Backends |-> "idle"]
    /\ i = [b \in Backends |-> 0]
    /\ j = [b \in Backends |-> 0]
    /\ k = [b \in Backends |-> 0]
    /\ page = [b \in Backends |-> None]
    /\ total_records = [b \in Backends |-> 0]
    /\ pmids = [b \in Backends |-> <<>>]
    /\ item_results = [b \in Backends |-> <<>>]
    /\ stop_event = [b \in Backends |-> FALSE]
    /\ restarts = [b \in Backends |-> 0]
    /\ loaded = [b \in Backends |-> NoFile]
    /\ events = [b \in Backends |-> <<>>]
    /\ errors_reported = [b \in Backends |-> 0]
    /\ non_200s = [b \in Backends |-> 0]
    /\ no_data = [b \in Backends |-> 0]
    /\ delays = [b \in Backends |-> 0]
    /\ cell_start = [b \in Backends |-> 0]
    /\ stopped_at = [b \in Backends |-> -1]
    /\ progress_calls = [b \in Backends |-> 0]
    /\ progress_bar = 0
    /\ set_by = "main"
    /\ terms_observed = [b \in Backends |-> <<>>]
    /\ searched_terms = <<>>
    /\ save_index = [b \in Backends |-> 0]
    /\ save_passed = [b \in Backends |-> FALSE]

\* No pure function is being exercised.
NoEntry == <<>>
NoBench ==
    /\ entry = NoEntry
    /\ records = <<>>
    /\ term = <<>>
    /\ expansion = <<>>
    /\ first_request = <<>>

\* One checkbox is checked.
InitCommon ==
    /\ selected \in { {b} : b \in Backends }
    /\ InitState
    /\ NoBench

\* A fresh start: no checkpoint on disk.
InitFresh ==
    /\ query_terms \in SeqsUpTo(TermPool, MaxTerms)
    /\ keywords \in SeqsUpTo(KeywordPool, MaxKeywords)
    /\ checkpoint_file = [b \in Backends |-> NoFile]
    /\ merged = [b \in Backends |-> 0]
    /\ issued = [b \in Backends |-> 0]
    /\ answered = [b \in Backends |-> 0]

\* The requests an interrupted earlier process had counted when it saved
\* the checkpoint of its first cell: one short of the daily budget.
Spent == max_requests_per_day - 1

\* The checkpoint that process left on disk: the first cell merged, the
\* indices of the second cell, Spent requests counted and logged.
Leftover(b, terms, kws) ==
    LET item1 == terms[1]
        name1 == split(item1)[1]
        recs  == CellRecords(name1, kws[1])
        ar    == MergeCell(EnsureEntry(<<>>, item1, kws), item1, name1, kws[1], recs)
        log   == [n \in 1..Spent |-> LogLine(n, << "request", name1, kws[1], n >>)]
    IN  << checkpoint_data(b, ar, Len(recs), 0, 1, 0, Spent, log) >>

\* A start after an interruption: the selected backend finds the checkpoint
\* of a long first cell (the first keyword has results, as the PubMed
\* connector saves no checkpoint for a cell without ids).
InitInterrupted ==
    /\ query_terms \in { t \in SeqsUpTo(TermPool, MaxTerms) : Len(t) = 1 }
    /\ keywords \in { s \in SeqsUpTo(KeywordPool, MaxKeywords) :
                         Len(s) >= 1 /\ s[1] = "x" }
    /\ checkpoint_file = [b \in Backends |->
            IF b \in selected THEN Leftover(b, query_terms, keywords) ELSE NoFile]
    /\ merged = [b \in Backends |->
            IF b \in selected
            THEN Len(CellRecords(split(query_terms[1])[1], keywords[1])) ELSE 0]
    /\ issued = [b \in Backends |-> IF b \in selected THEN Spent ELSE 0]
    /\ answered = [b \in Backends |-> IF b \in selected THEN Spent ELSE 0]

Init ==
    /\ InitCommon
    /\ \/ InitFresh
       \/ InitInterrupted

\* Two checkboxes are checked and both backends find the checkpoint of an
\* interrupted earlier process.
WorkerPairs == { {"IEEE", "PubMed"}, {"Springer", "Scopus"} }

InitWorkers ==
    /\ selected \in WorkerPairs
    /\ InitState
    /\ NoBench
    /\ InitInterrupted
    /\ query_terms = << <<"A", "or", "B">> >>
    /\ keywords = << "x" >>

\* One checked backend that finds the checkpoint of an interrupted earlier
\* process, with one multi-name term and one or two keywords.
InitStop ==
    /\ InitCommon
    /\ InitInterrupted
    /\ query_terms = << <<"A", "or", "B">> >>

\* ------------------------------------------------------------ the connector
\* load_checkpoint: the document on disk, or nothing.
load_checkpoint(b) == checkpoint_file[b]

\* A constructor that restores the results but starts the total at 0.
connector_forgets_total(b, data) ==
    IF Exists(data)
    THEN [ all_results         |-> Content(data)["all_results"],
           total_saved_records |-> 0,
           item_index          |-> Content(data)[IndexKey(b)],
           keyword_index       |-> Content(data)["keyword_index"],
           name_index          |-> Content(data)["name_index"],
           request_counter     |-> Content(data)["request_counter"],
           request_log         |-> Content(data)["request_log"] ]
    ELSE [ all_results         |-> <<>>,
           total_saved_records |-> 0,
           item_index          |-> 0,
           keyword_index       |-> 0,
           name_index          |-> 0,
           request_counter     |-> 0,
           request_log         |-> <<>> ]

\* A constructor that restores everything but the request counter.
connector_default_counter(b, data) ==
    IF Exists(data)
    THEN [ all_results         |-> Content(data)["all_results"],
           total_saved_records |-> Content(data)["total_saved_records"],
           item_index          |-> Content(data)[IndexKey(b)],
           keyword_index       |-> Content(data)["keyword_index"],
           name_index          |-> Content(data)["name_index"],
           request_counter     |-> 0,
           request_log         |-> Content(data)["request_log"] ]
    ELSE [ all_results         |-> <<>>,
           total_saved_records |-> 0,
           item_index          |-> 0,
           keyword_index       |-> 0,
           name_index          |-> 0,
           request_counter     |-> 0,
           request_log         |-> <<>> ]

\* __init__: the connector's fields, seeded from the checkpoint when one was
\* loaded and empty otherwise.
connector(b, data) ==
    IF Exists(data)
    THEN [ all_results         |-> Content(data)["all_results"],
           total_saved_records |-> Content(data)["total_saved_records"],
           item_index          |-> Content(data)[IndexKey(b)],
           keyword_index       |-> Content(data)["keyword_index"],
           name_index          |-> Content(data)["name_index"],
           request_counter     |-> Content(data)["request_counter"],
           request_log         |-> Content(data)["request_log"] ]
    ELSE [ all_results         |-> <<>>,
           total_saved_records |-> 0,
           item_index          |-> 0,
           keyword_index       |-> 0,
           name_index          |-> 0,
           request_counter     |-> 0,
           request_log         |-> <<>> ]

\* Variant: every connector names the same checkpoint file.
checkpoint_path_shared(b) == "checkpoint.json"

\* self.checkpoint_file, in the working directory all connectors share
checkpoint_path(b) ==
    CASE b = "IEEE" -> "checkpoint_ieee.json"
      [] b = "Springer" -> "checkpoint_springer.json"
      [] b = "Scopus" -> "checkpoint_scopus.json"
      [] OTHER -> "checkpoint_pubmed.json"

\* The file search() writes its final output to.
result_path(b) ==
    CASE b = "IEEE" -> "1_IEEE_results.json"
      [] b = "Springer" -> "2_springer_results.json"
      [] b = "Scopus" -> "3_scopus_results.json"
      [] OTHER -> "4_pubmed_results_all.json"

\* Backend b writes (or removes) the file at its path: every backend whose
\* path is the same one sees the new file.
WriteCheckpoint(disk, b, f) ==
    [c \in DOMAIN disk |->
        IF checkpoint_path(c) = checkpoint_path(b) THEN f ELSE disk[c]]

\* The same for the results file of backend b.
WriteResult(disk, b, f) ==
    [c \in DOMAIN disk |->
        IF result_path(c) = result_path(b) THEN f ELSE disk[c]]

\* save_checkpoint(data): the running counter and log are written over the
\* ones in data, and the document replaces the file.
save_checkpoint(b, data) ==
    << ("request_counter" :> request_counter[b]) @@
       ("request_log" :> request_log[b]) @@ data >>

\* The order in which start_search tests the checkboxes.
Order(b) ==
    CASE b = "IEEE" -> 1 [] b = "Springer" -> 2 [] b = "Scopus" -> 3 [] OTHER -> 4

\* run_api: APIWorker.__init__ constructs the connector in the main thread,
\* the worker is appended to api_threads and started; once for each checked
\* backend, in the order of the checkboxes, in every start_search.
Construct(b) ==
    /\ main_pc = "start_search"
    /\ b \in selected
    /\ b \notin Range(api_threads)
    /\ \A c \in selected : Order(c) < Order(b) => c \in Range(api_threads)
    /\ pc[b] \in {"idle", "failed", "done"}
    /\ pc[b] # "idle" => restarts[b] < MaxRestarts
    /\ api_threads' = Append(api_threads, b)
    /\ thread_request_log' = Upd(thread_request_log, b, <<>>)
    /\ LET c == connector(b, load_checkpoint(b))
       IN  /\ all_results' = Upd(all_results, b, c.all_results)
           /\ total_saved_records' = Upd(total_saved_records, b, c.total_saved_records)
           /\ item_index' = Upd(item_index, b, c.item_index)
           /\ keyword_index' = Upd(keyword_index, b, c.keyword_index)
           /\ name_index' = Upd(name_index, b, c.name_index)
           /\ request_counter' = Upd(request_counter, b, c.request_counter)
           /\ request_log' = Upd(request_log, b, c.request_log)
    /\ pc' = Upd(pc, b, "ready")
    /\ stop_event' = Upd(stop_event, b, FALSE)
    /\ i' = Upd(i, b, 0)
    /\ j' = Upd(j, b, 0)
    /\ k' = Upd(k, b, 0)
    /\ page' = Upd(page, b, None)
    /\ total_records' = Upd(total_records, b, 0)
    /\ pmids' = Upd(pmids, b, <<>>)
    /\ item_results' = Upd(item_results, b, <<>>)
    /\ restarts' = Upd(restarts, b, IF pc[b] # "idle" THEN restarts[b] + 1 ELSE restarts[b])
    /\ loaded' = Upd(loaded, b, checkpoint_file[b])
    /\ events' = Upd(events, b, <<>>)
    /\ errors_reported' = Upd(errors_reported, b, 0)
    /\ cell_start' = Upd(cell_start, b, 0)
    /\ stopped_at' = Upd(stopped_at, b, -1)
    /\ terms_observed' = Upd(terms_observed, b, <<>>)
    /\ UNCHANGED << shown, bench, saved,
                    main_pc, combined_log,
                    no_data, delays,
                    inputs, files, merged, issued, answered, non_200s >>

\* ------------------------------------------------------------------ search
item(b) == query_terms[i[b] + 1]
bias_names(b) == split(item(b))
IsSingle(b) == Len(bias_names(b)) = 1
name(b) == IF IsSingle(b) THEN bias_names(b)[1] ELSE bias_names(b)[k[b] + 1]
keyword(b) == keywords[j[b] + 1]

\* The connectors that set keyword_index back to 0 after the keyword loop of
\* a single-name term and at the end of every primary term.
ResetsKeywordIndex(b) == b \in {"IEEE", "PubMed"}

\* The connectors that set name_index back to 0 right after the name loop (all
\* four do so at the end of every primary term).
ResetsNameIndexAfterNames(b) == b \in {"IEEE", "PubMed"}

\* APIWorker.run calls search(): for i in range(self.item_index, len(terms))
StartSearch(b) ==
    /\ pc[b] = "ready"
    /\ i' = Upd(i, b, item_index[b])
    /\ pc' = Upd(pc, b, "outer")
    /\ UNCHANGED << ui, bench, saved,
                    main,
                    trail,
                    inputs, fields, files, j, k, page, total_records, pmids,
                    item_results, stop_event, ghosts >>

\* The head of one primary term: split it, create its entry if missing, and
\* enter the keyword loop (one name) or the name loop (several names).
BeginTerm(b) ==
    /\ pc[b] = "outer"
    /\ i[b] < Len(query_terms)
    /\ all_results' = Upd(all_results, b, EnsureEntry(all_results[b], item(b), keywords))
    /\ IF IsSingle(b)
       THEN /\ j' = Upd(j, b, keyword_index[b])
            /\ k' = Upd(k, b, 0)
            /\ pc' = Upd(pc, b, "kwloop")
       ELSE /\ k' = Upd(k, b, name_index[b])
            /\ j' = j
            /\ pc' = Upd(pc, b, "nameloop")
    /\ UNCHANGED << ui, bench, saved,
                    main,
                    trail,
                    inputs, item_index, keyword_index, name_index,
                    total_saved_records, request_counter, request_log, files,
                    i, page, total_records, pmids, item_results, stop_event, ghosts >>

\* Variant: the keyword loop of a name goes on where the loop of the name
\* before it ended.
NameLoop_keeps_keyword_position(b) ==
    /\ pc[b] = "nameloop"
    /\ IF k[b] < Len(bias_names(b))
       THEN /\ j' = IF k[b] = name_index[b] THEN Upd(j, b, keyword_index[b]) ELSE j
            /\ pc' = Upd(pc, b, "kwloop")
            /\ name_index' = name_index
       ELSE /\ j' = j
            /\ pc' = Upd(pc, b, "endterm")
            /\ name_index' = IF ResetsNameIndexAfterNames(b) THEN Upd(name_index, b, 0)
                              ELSE name_index
    /\ UNCHANGED << ui, bench, saved,
                    main,
                    trail,
                    inputs, item_index, keyword_index, all_results,
                    total_saved_records, request_counter, request_log, files,
                    i, k, page, total_records, pmids, item_results, stop_event, ghosts >>

\* for k in range(self.name_index, len(bias_names))
NameLoop(b) ==
    /\ pc[b] = "nameloop"
    /\ IF k[b] < Len(bias_names(b))
       THEN /\ j' = Upd(j, b, keyword_index[b])
            /\ pc' = Upd(pc, b, "kwloop")
            /\ name_index' = name_index
       ELSE /\ j' = j
            /\ pc' = Upd(pc, b, "endterm")
            /\ name_index' = IF ResetsNameIndexAfterNames(b) THEN Upd(name_index, b, 0)
                              ELSE name_index
    /\ UNCHANGED << ui, bench, saved,
                    main,
                    trail,
                    inputs, item_index, keyword_index, all_results,
                    total_saved_records, request_counter, request_log, files,
                    i, k, page, total_records, pmids, item_results, stop_event, ghosts >>

\* The first page state of a cell.
FirstPage(b) == IF b = "PubMed" THEN 0 ELSE 1

\* for j in range(self.keyword_index, len(keywords)): the body starts a cell
BeginCell(b) ==
    /\ pc[b] = "kwloop"
    /\ j[b] < Len(keywords)
    /\ page' = Upd(page, b, FirstPage(b))
    /\ total_records' = Upd(total_records, b, 0)
    /\ pmids' = Upd(pmids, b, <<>>)
    /\ item_results' = Upd(item_results, b, <<>>)
    /\ pc' = Upd(pc, b, "request")
    /\ events' = Upd(events, b, Append(events[b], << "cell", i[b], k[b], j[b] >>))
    /\ cell_start' = Upd(cell_start, b, Len(request_log[b]))
    /\ UNCHANGED << ui, bench, saved,
                    main,
                    no_data, delays, stopped_at,
                    inputs, fields, files, i, j, k, stop_event, restarts,
                    loaded, merged, issued, answered, errors_reported, non_200s >>

\* The keyword loop is exhausted.
EndKeywords(b) ==
    /\ pc[b] = "kwloop"
    /\ j[b] >= Len(keywords)
    /\ IF IsSingle(b)
       THEN /\ keyword_index' = IF ResetsKeywordIndex(b) THEN Upd(keyword_index, b, 0)
                                 ELSE keyword_index
            /\ k' = k
            /\ pc' = Upd(pc, b, "endterm")
       ELSE /\ keyword_index' = Upd(keyword_index, b, 0)
            /\ k' = Upd(k, b, k[b] + 1)
            /\ pc' = Upd(pc, b, "nameloop")
    /\ UNCHANGED << ui, bench, saved,
                    main,
                    trail,
                    inputs, item_index, name_index, all_results,
                    total_saved_records, request_counter, request_log, files,
                    i, j, page, total_records, pmids, item_results, stop_event, ghosts >>

\* The end of the outer loop's body.
EndTerm(b) ==
    /\ pc[b] = "endterm"
    /\ keyword_index' = IF ResetsKeywordIndex(b) THEN Upd(keyword_index, b, 0)
                         ELSE keyword_index
    /\ name_index' = Upd(name_index, b, 0)
    /\ i' = Upd(i, b, i[b] + 1)
    /\ pc' = Upd(pc, b, "outer")
    /\ UNCHANGED << ui, bench, saved,
                    main,
                    trail,
                    inputs, item_index, all_results, total_saved_records,
                    request_counter, request_log, files, j, k, page,
                    total_records, pmids, item_results, stop_event, ghosts >>

\* ---------------------------------------------------------------- requests
\* The request a cell is about to issue: which endpoint, for which query, at
\* which page state.
Url(b) == << pc[b], name(b), keyword(b), page[b] >>

AtRequest(b) == pc[b] \in {"request", "fetch"}

\* A guard that lets one request too many through before the pause.
BudgetLeft_off_by_one(b) == Budgeted(b) => request_counter[b] <= max_requests_per_day

\* Variant: a request is let through whatever the counter.
BudgetLeft_unguarded(b) == b \in Backends

\* The daily-budget guard is passed (or the connector has none).
BudgetLeft(b) == Budgeted(b) => request_counter[b] < max_requests_per_day

\* get_data_from_url, budget branch: log the pause, sleep 24 hours, reset.
Pause(b) ==
    /\ AtRequest(b)
    /\ Budgeted(b)
    /\ request_counter[b] >= max_requests_per_day
    /\ request_counter' = Upd(request_counter, b, 0)
    /\ issued' = Upd(issued, b, 0)
    /\ UNCHANGED << ui, bench, saved,
                    main,
                    trail,
                    inputs, item_index, keyword_index, name_index, all_results,
                    total_saved_records, request_log, files, pc, locals,
                    stop_event, restarts, loaded, events, merged, answered,
                    errors_reported, non_200s >>

\* The log line is appended before the request is sent; the counter is
\* incremented after the response was received.
\* A log that keeps only the line of the latest request.
Logged_overwrites(b) == << LogLine(request_counter[b] + 1, Url(b)) >>

Logged(b) == Append(request_log[b], LogLine(request_counter[b] + 1, Url(b)))

\* The connectors that call time.sleep(1) before each request: IEEE in
\* call_api, Springer and Scopus at the head of the page loop. The PubMed
\* connector has no such call.
Sleeps(b) == b \in {"IEEE", "Springer", "Scopus"}

Delayed(b) == Upd(delays, b, IF Sleeps(b) THEN delays[b] + 1 ELSE delays[b])

\* progress_callback(self.request_counter): the worker thread calls
\* MainWindow.update_progress, which sets the progress bar then and there.
update_progress(b, value) ==
    /\ progress_calls' = Upd(progress_calls, b, progress_calls[b] + 1)
    /\ progress_bar' = value
    /\ set_by' = b

\* What every answered request does to the connector.
Counted(b) ==
    /\ delays' = Delayed(b)
    /\ request_log' = Upd(request_log, b, Logged(b))
    /\ request_counter' = Upd(request_counter, b, request_counter[b] + 1)
    /\ issued' = Upd(issued, b, issued[b] + 1)
    /\ answered' = Upd(answered, b, answered[b] + 1)

\* Variant: the page loop ends only when the last index passes the total.
call_api_strict_bound(b) ==
    /\ b = "IEEE"
    /\ pc[b] = "request"
    /\ Counted(b)
    /\ LET pageNo == (page[b] - 1) \div max_records + 1
           total  == IF total_records[b] = 0 THEN StubTotal(name(b), keyword(b))
                     ELSE total_records[b]
       IN  /\ total_records' = Upd(total_records, b, total)
           /\ item_results' = Upd(item_results, b,
                   item_results[b] \o StubRecords(name(b), keyword(b), pageNo))
           /\ IF page[b] + (max_records - 1) > total
              THEN /\ pc' = Upd(pc, b, "merge")
                   /\ page' = page
                   /\ UNCHANGED shown
              ELSE /\ pc' = pc
                   /\ page' = Upd(page, b, page[b] + max_records)
                   /\ update_progress(b, request_counter[b] + 1)
    /\ UNCHANGED << terms_observed, bench, saved,
                    main,
                    no_data, cell_start, stopped_at,
                    inputs, item_index, keyword_index, name_index, all_results,
                    total_saved_records, files, i, j, k, pmids, stop_event,
                    restarts, loaded, events, merged, errors_reported, non_200s >>

\* IEEE: one pass of the while True loop, call_api answered.
call_api(b) ==
    /\ b = "IEEE"
    /\ pc[b] = "request"
    /\ Counted(b)
    /\ LET pageNo == (page[b] - 1) \div max_records + 1
           total  == IF total_records[b] = 0 THEN StubTotal(name(b), keyword(b))
                     ELSE total_records[b]
       IN  /\ total_records' = Upd(total_records, b, total)
           /\ item_results' = Upd(item_results, b,
                   item_results[b] \o StubRecords(name(b), keyword(b), pageNo))
           /\ IF page[b] + (max_records - 1) >= total
              THEN /\ pc' = Upd(pc, b, "merge")
                   /\ page' = page
                   /\ UNCHANGED shown
              ELSE /\ pc' = pc
                   /\ page' = Upd(page, b, page[b] + max_records)
                   /\ update_progress(b, request_counter[b] + 1)
    /\ UNCHANGED << terms_observed, bench, saved,
                    main,
                    no_data, cell_start, stopped_at,
                    inputs, item_index, keyword_index, name_index, all_results,
                    total_saved_records, files, i, j, k, pmids, stop_event,
                    restarts, loaded, events, merged, errors_reported, non_200s >>

\* Variant: the next-page cursor of the response is never followed.
get_data_from_url_without_cursor(b) ==
    /\ Cursor(b)
    /\ pc[b] = "request"
    /\ BudgetLeft(b)
    /\ Counted(b)
    /\ LET next == None
       IN  /\ total_records' = Upd(total_records, b,
                   IF total_records[b] = 0 THEN StubTotal(name(b), keyword(b))
                   ELSE total_records[b])
           /\ item_results' = Upd(item_results, b,
                   item_results[b] \o StubRecords(name(b), keyword(b), page[b]))
           /\ page' = Upd(page, b, next)
           /\ pc' = Upd(pc, b, IF next = None THEN "merge" ELSE "request")
    /\ update_progress(b, request_counter[b] + 1)
    /\ UNCHANGED << terms_observed, bench, saved,
                    main,
                    no_data, cell_start, stopped_at,
                    inputs, item_index, keyword_index, name_index, all_results,
                    total_saved_records, files, i, j, k, pmids,
                    stop_event, restarts, loaded, events, merged,
                    errors_reported, non_200s >>

\* Springer, Scopus: one pass of the while current_url loop, answered with
\* a page of the chain.
get_data_from_url(b) ==
    /\ Cursor(b)
    /\ pc[b] = "request"
    /\ BudgetLeft(b)
    /\ Counted(b)
    /\ LET next == IF page[b] < StubSize(name(b), keyword(b)) THEN page[b] + 1
                   ELSE None
       IN  /\ total_records' = Upd(total_records, b,
                   IF total_records[b] = 0 THEN StubTotal(name(b), keyword(b))
                   ELSE total_records[b])
           /\ item_results' = Upd(item_results, b,
                   item_results[b] \o StubRecords(name(b), keyword(b), page[b]))
           /\ page' = Upd(page, b, next)
           /\ pc' = Upd(pc, b, IF next = None THEN "merge" ELSE "request")
    /\ update_progress(b, request_counter[b] + 1)
    /\ UNCHANGED << terms_observed, bench, saved,
                    main,
                    no_data, cell_start, stopped_at,
                    inputs, item_index, keyword_index, name_index, all_results,
                    total_saved_records, files, i, j, k, pmids,
                    stop_event, restarts, loaded, events, merged,
                    errors_reported, non_200s >>

\* Variant: a status other than 200 leaves the page loop at the same page.
non_200_retried(b) ==
    /\ b = "Scopus"
    /\ pc[b] = "request"
    /\ BudgetLeft(b)
    /\ request_log' = Upd(request_log, b, Logged(b))
    /\ issued' = Upd(issued, b, issued[b] + 1)
    /\ answered' = Upd(answered, b, answered[b] + 1)
    /\ non_200s[b] < MaxNon200
    /\ non_200s' = Upd(non_200s, b, non_200s[b] + 1)
    /\ pc' = pc
    /\ delays' = Delayed(b)
    /\ UNCHANGED << ui, bench, saved,
                    main,
                    no_data, cell_start, stopped_at,
                    inputs, item_index, keyword_index, name_index, all_results,
                    total_saved_records, request_counter, files, locals,
                    stop_event, restarts, loaded, events, merged, errors_reported >>

\* Scopus: a response whose status is not 200. The line was logged, None is
\* returned before the counter is incremented, and the loop breaks.
non_200(b) ==
    /\ b = "Scopus"
    /\ pc[b] = "request"
    /\ BudgetLeft(b)
    /\ request_log' = Upd(request_log, b, Logged(b))
    /\ issued' = Upd(issued, b, issued[b] + 1)
    /\ answered' = Upd(answered, b, answered[b] + 1)
    /\ non_200s[b] < MaxNon200
    /\ non_200s' = Upd(non_200s, b, non_200s[b] + 1)
    /\ pc' = Upd(pc, b, "merge")
    /\ delays' = Delayed(b)
    /\ UNCHANGED << ui, bench, saved,
                    main,
                    no_data, cell_start, stopped_at,
                    inputs, item_index, keyword_index, name_index, all_results,
                    total_saved_records, request_counter, files, locals,
                    stop_event, restarts, loaded, events, merged, errors_reported >>

\* PubMed phase 1: one pass of the loop of get_pmids_for_search_term. An
\* empty id page ends the phase; with no id at all the cell is left by
\* "continue", before the merge and the checkpoint.
esearch(b) ==
    /\ b = "PubMed"
    /\ pc[b] = "request"
    /\ BudgetLeft(b)
    /\ Counted(b)
    /\ LET current_pmids == StubIdPage(name(b), keyword(b), page[b])
       IN  IF current_pmids # <<>>
           THEN /\ pmids' = Upd(pmids, b, pmids[b] \o current_pmids)
                /\ page' = Upd(page, b, page[b] + retmax)
                /\ UNCHANGED << pc, j >>
           ELSE IF pmids[b] = <<>>
           THEN /\ j' = Upd(j, b, j[b] + 1)
                /\ pc' = Upd(pc, b, "kwloop")
                /\ UNCHANGED << pmids, page >>
           ELSE /\ page' = Upd(page, b, 0)
                /\ pc' = Upd(pc, b, "fetch")
                /\ UNCHANGED << pmids, j >>
    /\ UNCHANGED << ui, bench, saved,
                    main,
                    no_data, cell_start, stopped_at,
                    inputs, item_index, keyword_index, name_index, all_results,
                    total_saved_records, files, i, k, total_records,
                    item_results, stop_event, restarts, loaded, events, merged,
                    errors_reported, non_200s >>

\* Variant: the batch loop ends only when the next offset passes the ids.
efetch_strict_bound(b) ==
    /\ b = "PubMed"
    /\ pc[b] = "fetch"
    /\ BudgetLeft(b)
    /\ Counted(b)
    /\ item_results' = Upd(item_results, b,
            item_results[b] \o StubRecords(name(b), keyword(b), page[b] \div retmax + 1))
    /\ page' = Upd(page, b, page[b] + retmax)
    /\ pc' = Upd(pc, b, IF page[b] + retmax > Len(pmids[b]) THEN "merge" ELSE "fetch")
    /\ update_progress(b, request_counter[b] + 1)
    /\ UNCHANGED << terms_observed, bench, saved,
                    main,
                    no_data, cell_start, stopped_at,
                    inputs, item_index, keyword_index, name_index, all_results,
                    total_saved_records, files, i, j, k, total_records, pmids,
                    stop_event, restarts, loaded, events, merged,
                    errors_reported, non_200s >>

\* PubMed phase 2: one batch of at most 100 ids is fetched.
efetch(b) ==
    /\ b = "PubMed"
    /\ pc[b] = "fetch"
    /\ BudgetLeft(b)
    /\ Counted(b)
    /\ item_results' = Upd(item_results, b,
            item_results[b] \o StubRecords(name(b), keyword(b), page[b] \div retmax + 1))
    /\ page' = Upd(page, b, page[b] + retmax)
    /\ pc' = Upd(pc, b, IF page[b] + retmax >= Len(pmids[b]) THEN "merge" ELSE "fetch")
    /\ update_progress(b, request_counter[b] + 1)
    /\ UNCHANGED << terms_observed, bench, saved,
                    main,
                    no_data, cell_start, stopped_at,
                    inputs, item_index, keyword_index, name_index, all_results,
                    total_saved_records, files, i, j, k, total_records, pmids,
                    stop_event, restarts, loaded, events, merged,
                    errors_reported, non_200s >>

\* Springer, Scopus: a 200 response whose body is empty ({}). It is counted,
\* and "if not data: break" ends the page loop.
empty_response(b) ==
    /\ Cursor(b)
    /\ pc[b] = "request"
    /\ BudgetLeft(b)
    /\ no_data[b] < MaxNoData
    /\ Counted(b)
    /\ no_data' = Upd(no_data, b, no_data[b] + 1)
    /\ pc' = Upd(pc, b, "merge")
    /\ UNCHANGED << ui, bench, saved,
                    main,
                    inputs, item_index, keyword_index, name_index, all_results,
                    total_saved_records, files, locals, stop_event, restarts,
                    loaded, events, merged, errors_reported, non_200s,
                    cell_start, stopped_at >>

\* Whether a well-formed body without any of the expected fields makes the
\* page loop raise: Scopus subscripts data['search-results']['link'] on every
\* page, Springer subscripts data["result"][0]["total"] while total_records
\* is still 0; IEEE and PubMed read every field with a default.
ShapeRaises(b) ==
    \/ b = "Scopus"
    \/ b = "Springer" /\ total_records[b] = 0

\* Where the page loop goes after a body without the expected fields, when
\* it does not raise: no record, no total, no next link, no id.
AfterMalformed(b) ==
    CASE b = "IEEE" ->
            IF page[b] + (max_records - 1) >= total_records[b]
            THEN [pc |-> "merge", page |-> page[b], j |-> j[b]]
            ELSE [pc |-> "request", page |-> page[b] + max_records, j |-> j[b]]
      [] b = "PubMed" /\ pc[b] = "request" ->
            IF pmids[b] = <<>>
            THEN [pc |-> "kwloop", page |-> page[b], j |-> j[b] + 1]
            ELSE [pc |-> "fetch", page |-> 0, j |-> j[b]]
      [] b = "PubMed" /\ pc[b] = "fetch" ->
            [pc |-> IF page[b] + retmax >= Len(pmids[b]) THEN "merge" ELSE "fetch",
             page |-> page[b] + retmax, j |-> j[b]]
      [] OTHER -> [pc |-> "merge", page |-> None, j |-> j[b]]

\* Whether the pass that handled such a body reaches its progress_callback:
\* the IEEE loop when it goes on to a next page, the Springer loop and the
\* PubMed fetch loop always, the PubMed id search never.
ProgressAfterMalformed(b) ==
    \/ b = "IEEE" /\ AfterMalformed(b).pc = "request"
    \/ b = "Springer"
    \/ b = "PubMed" /\ pc[b] = "fetch"

\* A 200 response whose body is well formed but has none of the expected
\* fields. It is counted; then the loop either raises, and APIWorker.run
\* reports the error and the thread ends, or goes on with zero records.
malformed_response(b) ==
    /\ AtRequest(b)
    /\ BudgetLeft(b)
    /\ no_data[b] < MaxNoData
    /\ Counted(b)
    /\ no_data' = Upd(no_data, b, no_data[b] + 1)
    /\ IF ShapeRaises(b)
       THEN /\ errors_reported' = Upd(errors_reported, b, errors_reported[b] + 1)
            /\ stop_event' = Upd(stop_event, b, TRUE)
            /\ pc' = Upd(pc, b, "failed")
            /\ UNCHANGED << page, j, shown >>
       ELSE /\ pc' = Upd(pc, b, AfterMalformed(b).pc)
            /\ page' = Upd(page, b, AfterMalformed(b).page)
            /\ j' = Upd(j, b, AfterMalformed(b).j)
            /\ UNCHANGED << errors_reported, stop_event >>
            /\ IF ProgressAfterMalformed(b)
               THEN update_progress(b, request_counter[b] + 1)
               ELSE UNCHANGED shown
    /\ UNCHANGED << terms_observed, bench, saved,
                    main,
                    inputs, item_index, keyword_index, name_index, all_results,
                    total_saved_records, files, i, k, total_records, pmids,
                    item_results, restarts, loaded, events, merged, non_200s,
                    cell_start, stopped_at >>

\* A failure handler that also deletes the checkpoint.
request_raises_and_clears(b) ==
    /\ AtRequest(b)
    /\ BudgetLeft(b)
    /\ request_log' = Upd(request_log, b, Logged(b))
    /\ errors_reported' = Upd(errors_reported, b, errors_reported[b] + 1)
    /\ stop_event' = Upd(stop_event, b, TRUE)
    /\ pc' = Upd(pc, b, "failed")
    /\ checkpoint_file' = Upd(checkpoint_file, b, NoFile)
    /\ delays' = Delayed(b)
    /\ UNCHANGED << ui, bench, saved,
                    main,
                    no_data, cell_start, stopped_at,
                    inputs, item_index, keyword_index, name_index, all_results,
                    total_saved_records, request_counter, result_file, locals,
                    restarts, loaded, events, merged, issued, answered, non_200s >>

\* A failure that is reported but does not stop the search: the cell is
\* completed with what was collected.
request_raises_and_continues(b) ==
    /\ AtRequest(b)
    /\ BudgetLeft(b)
    /\ request_log' = Upd(request_log, b, Logged(b))
    /\ errors_reported' = Upd(errors_reported, b, errors_reported[b] + 1)
    /\ pc' = Upd(pc, b, "merge")
    /\ delays' = Delayed(b)
    /\ UNCHANGED << ui, bench, saved,
                    main,
                    no_data, cell_start, stopped_at,
                    inputs, item_index, keyword_index, name_index, all_results,
                    total_saved_records, request_counter, files, i, j, k, page,
                    total_records, pmids, item_results, stop_event,
                    restarts, loaded, events, merged, issued, answered, non_200s >>

\* A transport-level failure: the request raises after its line was logged.
\* The exception leaves search(); APIWorker.run reports it through the log
\* callback, sets the stop event and the thread ends.
request_raises(b) ==
    /\ AtRequest(b)
    /\ BudgetLeft(b)
    /\ request_log' = Upd(request_log, b, Logged(b))
    /\ errors_reported' = Upd(errors_reported, b, errors_reported[b] + 1)
    /\ stop_event' = Upd(stop_event, b, TRUE)
    /\ pc' = Upd(pc, b, "failed")
    /\ delays' = Delayed(b)
    /\ UNCHANGED << ui, bench, saved,
                    main,
                    no_data, cell_start, stopped_at,
                    inputs, item_index, keyword_index, name_index, all_results,
                    total_saved_records, request_counter, files, locals,
                    restarts, loaded, events, merged, issued, answered, non_200s >>

\* -------------------------------------------------------- cell completion
\* The name index a checkpoint carries: the literal 0 in the single-name
\* branch, the loop variable k in the multi-name branch.
checkpoint_name_index(b) == IF IsSingle(b) THEN 0 ELSE k[b]

\* The cell's records are merged into all_results, the totals are raised and
\* the checkpoint is saved with the indices of the next cell.
CompleteCell(b) ==
    /\ pc[b] = "merge"
    /\ LET recs  == item_results[b]
           ar    == MergeCell(all_results[b], item(b), name(b), keyword(b), recs)
           total == total_saved_records[b] + Len(recs)
           data  == checkpoint_data(b, ar, total, i[b], j[b] + 1,
                                    checkpoint_name_index(b),
                                    request_counter[b], request_log[b])
       IN  /\ all_results' = Upd(all_results, b, ar)
           /\ total_saved_records' = Upd(total_saved_records, b, total)
           /\ checkpoint_file' = WriteCheckpoint(checkpoint_file, b,
                                        save_checkpoint(b, data))
           /\ merged' = Upd(merged, b, merged[b] + Len(recs))
           /\ events' = Upd(events, b, Append(events[b],
                   << "save", i[b], checkpoint_name_index(b), j[b] + 1 >>))
    /\ j' = Upd(j, b, j[b] + 1)
    /\ pc' = Upd(pc, b, "kwloop")
    /\ UNCHANGED << ui, bench, saved,
                    main,
                    trail,
                    inputs, item_index, keyword_index, name_index,
                    request_counter, request_log, result_file, i, k, page,
                    total_records, pmids, item_results, stop_event, restarts,
                    loaded, issued, answered, errors_reported, non_200s >>

\* ------------------------------------------------------------- completion
\* for term in self.initial_terms + self.secondary_terms, a keyword being a
\* term of one word.
all_terms == query_terms \o [p \in 1..Len(keywords) |-> << keywords[p] >>]

\* save_searched_term(term), run without interruption: the term is appended
\* unless the list holds it.
save_searched_term(list, t) ==
    IF t \in Range(list) THEN list ELSE Append(list, t)

\* The loop of APIWorker.run over the terms, run without interruption.
RECURSIVE save_terms(_, _)
save_terms(list, terms) ==
    IF terms = <<>> THEN list
    ELSE save_terms(save_searched_term(list, Head(terms)), Tail(terms))

\* final_output = {"Total": ..., "Biases": ...}
final_output(b) ==
    ("Total" :> total_saved_records[b]) @@ ("Biases" :> all_results[b])

\* The outer loop is exhausted: the final result document is written.
WriteFinal(b) ==
    /\ pc[b] = "outer"
    /\ i[b] >= Len(query_terms)
    /\ result_file' = WriteResult(result_file, b, << final_output(b) >>)
    /\ events' = Upd(events, b, Append(events[b], << "final" >>))
    /\ pc' = Upd(pc, b, "clear")
    /\ UNCHANGED << ui, bench, saved,
                    main,
                    trail,
                    inputs, fields, checkpoint_file, locals, stop_event,
                    restarts, loaded, merged, issued, answered,
                    errors_reported, non_200s >>

\* A completion that leaves the checkpoint on disk.
RemoveCheckpoint_keeps_file(b) ==
    /\ pc[b] = "clear"
    /\ pc' = Upd(pc, b, "done")
    /\ thread_request_log' = Upd(thread_request_log, b, request_log[b])
    /\ terms_observed' = Upd(terms_observed, b, all_terms)
    /\ searched_terms' = save_terms(searched_terms, all_terms)
    /\ UNCHANGED << shown, bench, save_index, save_passed,
                    main_pc, api_threads, combined_log,
                    trail,
                    inputs, fields, files, i, j, k, page, total_records, pmids,
                    item_results, stop_event, restarts, loaded, events, merged,
                    issued, answered, errors_reported, non_200s >>

\* if os.path.exists(self.checkpoint_file): os.remove(self.checkpoint_file)
RemoveCheckpoint(b) ==
    /\ pc[b] = "clear"
    /\ IF Exists(checkpoint_file[b])
       THEN /\ checkpoint_file' = WriteCheckpoint(checkpoint_file, b, NoFile)
            /\ events' = Upd(events, b, Append(events[b], << "remove" >>))
       ELSE UNCHANGED << checkpoint_file, events >>
    /\ pc' = Upd(pc, b, "done")
    /\ thread_request_log' = Upd(thread_request_log, b, request_log[b])
    /\ terms_observed' = Upd(terms_observed, b, all_terms)
    /\ searched_terms' = save_terms(searched_terms, all_terms)
    /\ UNCHANGED << shown, bench, save_index, save_passed,
                    main_pc, api_threads, combined_log,
                    trail,
                    inputs, fields, result_file, locals, stop_event, restarts,
                    loaded, merged, issued, answered, errors_reported, non_200s >>

\* ---------------------------------------------------------- main thread
\* A join that returns at once.
Joined_without_waiting(b) == b \in Backends

\* thread.join() returns: run() has returned, after search() returned or
\* after the exception was reported.
Joined(b) == pc[b] \in {"done", "failed"}

\* The tail of start_search: every thread.join() has returned, then
\* combine_and_save_logs writes the workers' request logs, in the order of
\* api_threads, to combined_api_requests.log, and start_search returns.
combine_and_save_logs ==
    /\ main_pc = "start_search"
    /\ Range(api_threads) = selected
    /\ \A p \in 1..Len(api_threads) : Joined(api_threads[p])
    /\ combined_log' = << [p \in 1..Len(api_threads) |->
                              thread_request_log[api_threads[p]]] >>
    /\ main_pc' = "finished"
    /\ UNCHANGED << ui, bench, saved, inputs, fields, files, pc, locals, stop_event, ghosts, trail,
                    api_threads, thread_request_log >>

\* start_search is clicked again after a search in which a worker halted on
\* an error: self.api_threads = [].
start_search ==
    /\ main_pc = "finished"
    /\ \E b \in selected : pc[b] = "failed"
    /\ \A b \in selected : restarts[b] < MaxRestarts
    /\ main_pc' = "start_search"
    /\ api_threads' = <<>>
    /\ UNCHANGED << ui, bench, saved, inputs, fields, files, pc, locals, stop_event, ghosts, trail,
                    thread_request_log, combined_log >>

\* APIWorker.stop, called on a worker that is alive: the event is set.
\* (The window's stop_search slot runs in the main thread, which start_search
\* occupies until every worker has ended, so it reaches no live worker; the
\* method itself can be called from any thread.)
stop(b) ==
    /\ pc[b] \notin {"idle", "done", "failed"}
    /\ ~stop_event[b]
    /\ stop_event' = Upd(stop_event, b, TRUE)
    /\ stopped_at' = Upd(stopped_at, b, Len(request_log[b]))
    /\ UNCHANGED << ui, bench, saved,
                    main,
                    inputs, fields, files, pc, locals, ghosts, no_data, delays,
                    cell_start >>

\* ------------------------------------------------------------ specification
Next ==
    \/ \E b \in Backends :
        \/ Construct(b)
        \/ StartSearch(b)
        \/ BeginTerm(b)
        \/ NameLoop(b)
        \/ BeginCell(b)
        \/ EndKeywords(b)
        \/ EndTerm(b)
        \/ Pause(b)
        \/ call_api(b)
        \/ get_data_from_url(b)
        \/ non_200(b)
        \/ empty_response(b)
        \/ malformed_response(b)
        \/ esearch(b)
        \/ efetch(b)
        \/ request_raises(b)
        \/ CompleteCell(b)
        \/ WriteFinal(b)
        \/ RemoveCheckpoint(b)
    \/ combine_and_save_logs
    \/ start_search

\* The program as the window drives it: one checked backend, any term lists.
Spec == Init /\ [][Next]_vars

\* Two checked backends: two workers side by side.
SpecWorkers == InitWorkers /\ [][Next]_vars

\* One worker, with APIWorker.stop callable while it is alive.
NextStop ==
    \/ Next
    \/ \E b \in Backends : stop(b)

SpecStop == InitStop /\ [][NextStop]_vars

\* ------------------------------------------------------------------ crash
\* The file as open(self.checkpoint_file, 'w') and an unfinished json.dump
\* leave it: present, holding the beginning of a document.
Truncated == << ("truncated" :> TRUE) >>

\* json.load succeeds on the file.
Decodes(f) == Exists(f) /\ "truncated" \notin DOMAIN Content(f)

\* The process is killed while save_checkpoint is writing the checkpoint of
\* the cell just merged: the file stays as the write left it, every thread
\* is gone.
killed_in_save_checkpoint(b) ==
    /\ pc[b] = "merge"
    /\ checkpoint_file' = WriteCheckpoint(checkpoint_file, b, Truncated)
    /\ pc' = [c \in Backends |-> IF c \in Range(api_threads) THEN "killed" ELSE pc[c]]
    /\ main_pc' = "killed"
    /\ UNCHANGED << inputs, fields, result_file, locals, stop_event, ghosts, trail,
                    api_threads, thread_request_log, combined_log, ui, bench, saved >>

\* The program is started again and start_search is clicked: run_api
\* constructs the connector, whose load_checkpoint finds the file and
\* json.load raises; no worker is started.
load_checkpoint_raises(b) ==
    /\ main_pc = "killed"
    /\ b \in selected
    /\ pc[b] = "killed"
    /\ ~Decodes(checkpoint_file[b])
    /\ Exists(checkpoint_file[b])
    /\ pc' = Upd(pc, b, "unloadable")
    /\ loaded' = Upd(loaded, b, checkpoint_file[b])
    /\ api_threads' = <<>>
    /\ UNCHANGED << inputs, fields, files, locals, stop_event, restarts, events,
                    merged, issued, answered, errors_reported, non_200s, trail,
                    main_pc, thread_request_log, combined_log, ui, bench, saved >>

\* One checked backend and one primary term, started with or without the
\* checkpoint of an interrupted earlier process.
InitCrash ==
    /\ Init
    /\ Len(query_terms) = 1
    /\ Len(keywords) >= 1

NextCrash ==
    \/ Next
    \/ \E b \in Backends : killed_in_save_checkpoint(b)
    \/ \E b \in Backends : load_checkpoint_raises(b)

SpecCrash == InitCrash /\ [][NextCrash]_vars

\* ---------------------------------------------------------- pure functions
\* The main variables at rest while a pure function is exercised: no backend
\* is checked and two keywords are entered.
InitAtRest ==
    /\ selected = {}
    /\ query_terms = <<>>
    /\ keywords = << "x", "y" >>
    /\ InitState
    /\ checkpoint_file = [b \in Backends |-> NoFile]
    /\ merged = [b \in Backends |-> 0]
    /\ issued = [b \in Backends |-> 0]
    /\ answered = [b \in Backends |-> 0]

\* The words of a primary term, and how many it may have.
Words == {"A", "B", "C", "or", "OR"}
MaxWords == 5

InitExpand ==
    /\ InitAtRest
    /\ term \in SeqsUpTo(Words, MaxWords) \ { <<>> }
    /\ expansion = <<>>
    /\ entry = NoEntry
    /\ records = <<>>
    /\ first_request = <<>>

\* The head of the outer loop's body for a term that has no entry yet:
\* bias_names = item.split(" or "), then the entry is created.
expand ==
    /\ expansion = <<>>
    /\ expansion' = [bias_names  |-> split(term),
                     all_results |-> EnsureEntry(<<>>, term, keywords)]
    /\ UNCHANGED << inputs, fields, files, pc, locals, stop_event, ghosts, trail,
                    main, ui, saved, entry, records, term, first_request >>

NextExpand == expand

SpecExpand == InitExpand /\ [][NextExpand]_vars

\* The fields a connector normalizes, under the names of the normalized
\* record, and the element that wraps the citation of a PubMed article.
Fields == {"title", "abstract", "authors", "doi", "isbn", "issn", "publication year"}
Keys == Fields \cup {"MedlineCitation"}

\* What an entry supplies for a key: an empty value or a value with content
\* (for "authors": an empty list, or one author with a name).
Values == {"", "v"}

\* Python's None, and truthiness as any() tests it.
PyNone == "<None>"
Truthy(v) == v \notin {"", PyNone}

\* dict.get(key, default)
Get(e, key, default) == IF key \in DOMAIN e THEN e[key] ELSE default

\* ', '.join(the names of the authors), '' when the list is absent or empty
Authors(e) == Get(e, "authors", "")

\* IEEEAPI.search: every article is appended, absent fields defaulted.
ieee_record(e) ==
    [f \in Fields |->
        CASE f = "authors" -> Authors(e)
          [] f = "doi" -> Get(e, f, "No DOI")
          [] OTHER -> Get(e, f, "null")]

\* SpringerAPI.extract_data: the same defaults (the date under
\* publicationDate), every record kept.
springer_record(e) ==
    [f \in Fields |->
        CASE f = "authors" -> Authors(e)
          [] f = "doi" -> Get(e, f, "No DOI")
          [] OTHER -> Get(e, f, "null")]

\* ScopusAPI.extract_titles_and_abstracts: title, abstract and doi without
\* default, isbn and issn defaulted to "null", the year cut from coverDate.
scopus_record(e) ==
    [f \in Fields |->
        CASE f = "authors" -> Authors(e)
          [] f \in {"isbn", "issn"} -> Get(e, f, "null")
          [] f = "publication year" -> Get(e, f, "")
          [] OTHER -> Get(e, f, PyNone)]

\* element.text: None for an element without text
Text(v) == IF v = "" THEN PyNone ELSE v

\* PubMedAPI.extract_pubmed_data: the title is always set ("null" without an
\* ArticleTitle element), every other key only when its element is there.
pubmed_record(e) ==
    [f \in {"title"} \cup (DOMAIN e \cap Fields) |->
        CASE f = "title" -> IF f \in DOMAIN e THEN Text(e[f]) ELSE "null"
          [] f = "authors" -> e[f]
          [] OTHER -> Text(e[f])]

\* any(article_data.values())
AnyValue(rec) == \E f \in DOMAIN rec : Truthy(rec[f])

\* The records a connector makes of a response that holds the one entry e.
Extract(b, e) ==
    CASE b = "IEEE" -> << ieee_record(e) >>
      [] b = "Springer" -> << springer_record(e) >>
      [] b = "Scopus" ->
            IF AnyValue(scopus_record(e)) THEN << scopus_record(e) >> ELSE <<>>
      [] OTHER ->
            IF "MedlineCitation" \notin DOMAIN e THEN <<>>
            ELSE IF AnyValue(pubmed_record(e)) THEN << pubmed_record(e) >>
            ELSE <<>>

\* The entries a backend can send: a JSON object with any of the fields, or
\* a PubmedArticle element, whose title, abstract, issn, year and authors
\* lie inside its MedlineCitation and whose doi and isbn lie beside it.
Shaped(b, e) ==
    IF b = "PubMed"
    THEN "MedlineCitation" \notin DOMAIN e => DOMAIN e \subseteq {"doi", "isbn"}
    ELSE "MedlineCitation" \notin DOMAIN e

Entries ==
    { e \in UNION { [K -> Values] : K \in SUBSET Keys } :
          "MedlineCitation" \in DOMAIN e => e["MedlineCitation"] = "" }

InitExtract ==
    /\ InitAtRest
    /\ entry \in Entries
    /\ records = <<>>
    /\ term = <<>>
    /\ expansion = <<>>
    /\ first_request = <<>>

\* One connector extracts the records of a response holding the entry.
extract(b) ==
    /\ records = <<>>
    /\ Shaped(b, entry)
    /\ records' = [backend |-> b, out |-> Extract(b, entry)]
    /\ UNCHANGED << inputs, fields, files, pc, locals, stop_event, ghosts, trail,
                    main, ui, saved, entry, term, expansion, first_request >>

NextExtract == \E b \in Backends : extract(b)

SpecExtract == InitExtract /\ [][NextExtract]_vars

\* The query of one cell: "<name>" AND "<keyword>", the name stripped (a
\* term of single-spaced words has nothing to strip).
query_text(nm, kw) == << nm, "AND", kw >>

\* The first request search() builds for the cell of a name and a keyword,
\* in the branch of a single-name term or of a multi-name term: endpoint,
\* query and the page-size and start parameters, in the order of the URL.
initial_url(b, single, nm, kw) ==
    CASE b = "IEEE" ->
            [endpoint |-> "search/articles", query |-> query_text(nm, kw),
             params |-> << << "max_records", max_records >>, << "start_record", 1 >> >>]
      [] b = "Springer" ->
            [endpoint |-> "openaccess/json", query |-> query_text(nm, kw),
             params |-> IF single THEN <<>>
                        ELSE << << "p", 100 >>, << "s", 1 >> >>]
      [] b = "Scopus" ->
            [endpoint |-> "content/search/scopus", query |-> query_text(nm, kw),
             params |-> << << "count", max_records >>, << "view", "COMPLETE" >> >>]
      [] OTHER ->
            [endpoint |-> "esearch.fcgi", query |-> query_text(nm, kw),
             params |-> << << "retstart", 0 >>, << "retmax", retmax >> >>]

InitRequest ==
    /\ InitAtRest
    /\ term \in SeqsUpTo(Words, MaxWords) \ { <<>> }
    /\ expansion = <<>>
    /\ entry = NoEntry
    /\ records = <<>>
    /\ first_request = <<>>

\* search() of connector b reaches the cell of one name of the term and one
\* keyword, through the branch the number of names selects, and builds its
\* first request.
build_first_request(b) ==
    /\ first_request = <<>>
    /\ \E kk \in 1..Len(split(term)), jj \in 1..Len(keywords) :
          first_request' =
              [backend |-> b,
               single  |-> Len(split(term)) = 1,
               name    |-> split(term)[kk],
               keyword |-> keywords[jj],
               url     |-> initial_url(b, Len(split(term)) = 1,
                                       split(term)[kk], keywords[jj])]
    /\ UNCHANGED << inputs, fields, files, pc, locals, stop_event, ghosts, trail,
                    main, ui, saved, entry, records, term, expansion >>

NextRequest == \E b \in Backends : build_first_request(b)

SpecRequest == InitRequest /\ [][NextRequest]_vars

\* ==================================================================== claims
\* ------------------------------------------------------- iteration order
\* The cells of primary term ii (0-based), as << i, k, j >>, names outermost.
CellsOfTerm(ii, nNames, nKws) ==
    [p \in 1..(nNames * nKws) |-> << ii, (p - 1) \div nKws, (p - 1) % nKws >>]

RECURSIVE CellsFrom(_)
CellsFrom(ii) ==
    IF ii >= Len(query_terms) THEN <<>>
    ELSE CellsOfTerm(ii, Len(split(query_terms[ii + 1])), Len(keywords))
         \o CellsFrom(ii + 1)

\* Every cell of the run, in iteration order.
AllCells == CellsFrom(0)

\* Lexicographic order on << i, k, j >>.
Before(c, d) ==
    \/ c[1] < d[1]
    \/ c[1] = d[1] /\ c[2] < d[2]
    \/ c[1] = d[1] /\ c[2] = d[2] /\ c[3] < d[3]

\* The cell a checkpoint document was saved for.
CheckpointedCell(b, doc) ==
    << doc[IndexKey(b)], doc["name_index"], doc["keyword_index"] - 1 >>

\* The cells that follow the checkpointed cell in iteration order.
CellsAfter(b, doc) ==
    SelectSeq(AllCells, LAMBDA c : Before(CheckpointedCell(b, doc), c))

\* The cells begun since the connector was constructed.
CellsRun(b) ==
    LET begun == SelectSeq(events[b], LAMBDA e : e[1] = "cell")
    IN  [p \in 1..Len(begun) |-> << begun[p][2], begun[p][3], begun[p][4] >>]

IsPrefix(s, t) == Len(s) <= Len(t) /\ s = SubSeq(t, 1, Len(s))

Resumed(b) == pc[b] \notin {"idle"} /\ Exists(loaded[b])

SearchReturned(b) == pc[b] = "done"

\* C1 for one backend.
ResumeExact(b) ==
    Resumed(b) =>
        /\ IsPrefix(CellsRun(b), CellsAfter(b, Content(loaded[b])))
        /\ pc[b] \in {"clear", "done"} =>
               CellsRun(b) = CellsAfter(b, Content(loaded[b]))

\* C1: after a resume from a checkpoint the cells run are exactly the cells
\* that follow the checkpointed cell in iteration order, for every backend.
C1_ResumeRunsExactlyTheRemainingCells ==
    \A b \in selected : ResumeExact(b)

\* ------------------------------------------------ the one-pass document
RECURSIVE EntriesFrom(_, _)
EntriesFrom(ar, ii) ==
    IF ii >= Len(query_terms) THEN ar
    ELSE EntriesFrom(EnsureEntry(ar, query_terms[ii + 1], keywords), ii + 1)

CellItem(c) == query_terms[c[1] + 1]
CellName(c) == split(CellItem(c))[c[2] + 1]
CellKeyword(c) == keywords[c[3] + 1]

\* The PubMed connector leaves a cell without ids before the merge.
Merges(b, c) == b = "PubMed" => StubIds(CellName(c), CellKeyword(c)) > 0

RECURSIVE MergeCells(_, _, _)
MergeCells(b, ar, cells) ==
    IF cells = <<>> THEN ar
    ELSE LET c == Head(cells)
         IN  MergeCells(b,
                 IF Merges(b, c)
                 THEN MergeCell(ar, CellItem(c), CellName(c), CellKeyword(c),
                                CellRecords(CellName(c), CellKeyword(c)))
                 ELSE ar,
                 Tail(cells))

RECURSIVE CountCells(_)
CountCells(cells) ==
    IF cells = <<>> THEN 0
    ELSE Len(CellRecords(CellName(Head(cells)), CellKeyword(Head(cells))))
         + CountCells(Tail(cells))

\* The final result document of a run that visits every cell once, in
\* iteration order, against the stub.
OnePass(b) ==
    ("Total" :> CountCells(AllCells)) @@
    ("Biases" :> MergeCells(b, EntriesFrom(<<>>, 0), AllCells))

\* Every response so far was a 200 with the stub's page in it.
Deterministic(b) == non_200s[b] = 0 /\ no_data[b] = 0

\* The run reached its end without a resume, against the deterministic stub.
Uninterrupted(b) ==
    /\ SearchReturned(b)
    /\ ~Exists(loaded[b])
    /\ restarts[b] = 0
    /\ Deterministic(b)

\* OnePass is the document of the uninterrupted run.
OnePassIsTheUninterruptedRun ==
    \A b \in selected :
        Uninterrupted(b) => Content(result_file[b]) = OnePass(b)

ResumeSameDocument(b) ==
    (SearchReturned(b) /\ Resumed(b) /\ Deterministic(b))
        => Content(result_file[b]) = OnePass(b)

\* C2: a run that was interrupted and resumed from its checkpoint writes the
\* same final result document as the uninterrupted run, for every backend.
C2_ResumedRunWritesTheOnePassDocument ==
    \A b \in selected : ResumeSameDocument(b)

\* ------------------------------------------------------------- histories
Constructed(b) == b \in selected /\ pc[b] # "idle"

\* The step is the construction of a connector (a new run of the backend).
ConstructStep(b) == pc[b] \in {"idle", "failed", "done"} /\ pc'[b] = "ready"

Positions(b, kind) == { p \in 1..Len(events[b]) : events[b][p][1] = kind }

LastEvent(b) == events[b][Len(events[b])]

\* A cell is in progress: begun, and neither merged nor left.
InCell(b) == pc[b] \in {"request", "fetch", "merge"}

\* C3: total_saved_records is the number of records of every cell merged
\* during the whole run, resumes included, and it never decreases.
C3_TotalIsTheSumOfMergedCells ==
    /\ [](\A b \in Backends : Constructed(b) => total_saved_records[b] = merged[b])
    /\ [][\A b \in Backends : total_saved_records'[b] >= total_saved_records[b]]_vars

C3_Witness ==
    \E b \in selected :
        /\ SearchReturned(b)
        /\ restarts[b] > 0
        /\ Exists(loaded[b])
        /\ total_saved_records[b] > Content(loaded[b])["total_saved_records"]

\* The checkpoint event a finished cell << "cell", i, k, j >> must be
\* followed by: indices (primary i, name k, keyword j + 1), where k is 0 for
\* a single-name term.
SaveFor(cell) == << "save", cell[2], cell[3], cell[4] + 1 >>

OneCheckpointPerCell(b) ==
    /\ \A p \in Positions(b, "cell") :
           IF p < Len(events[b]) THEN events[b][p + 1] = SaveFor(events[b][p])
           ELSE InCell(b) \/ pc[b] = "failed"
    /\ \A p \in Positions(b, "save") :
           p > 1 /\ events[b][p - 1][1] = "cell"

\* C4: every cell that finishes, also one with zero records or zero ids,
\* is followed by exactly one checkpoint with the indices of the next cell,
\* before the next cell starts.
C4_EveryFinishedCellIsCheckpointedOnce ==
    \A b \in selected : OneCheckpointPerCell(b)

\* The final output was written: every cell was run or passed over.
Complete(b) == pc[b] \in {"clear", "done"}

\* C5 as claimed: the checkpoint file exists iff the run is incomplete.
C5_CheckpointExistsIffIncomplete ==
    \A b \in selected :
        Constructed(b) => (Exists(checkpoint_file[b]) <=> ~Complete(b))

\* A checkpoint was saved by this connector or loaded by its constructor.
Checkpointed(b) == Exists(loaded[b]) \/ Positions(b, "save") # {}

\* C5 amended: the file exists whenever the run is incomplete and a cell has
\* been checkpointed, and it is absent once search() has returned.
C5_CheckpointExistsWhileIncompleteAfterFirstSave ==
    \A b \in selected :
        Constructed(b) =>
            /\ (~Complete(b) /\ Checkpointed(b)) => Exists(checkpoint_file[b])
            /\ Exists(checkpoint_file[b]) => ~SearchReturned(b)
            /\ ~Checkpointed(b) => ~Exists(checkpoint_file[b])

C5_Witness ==
    \E b \in selected :
        /\ SearchReturned(b)
        /\ Positions(b, "save") # {}
        /\ Positions(b, "remove") # {}
        /\ ~Exists(checkpoint_file[b])

\* C6: the checkpoint is removed at most once per run, only after the outer
\* loop is exhausted and the final output written; a run that stops earlier
\* never removes it; a missing file at construction is not an error.
C6_CheckpointRemovedOnceAfterFinalOutput ==
    /\ [](\A b \in selected :
            /\ Cardinality(Positions(b, "remove")) <= 1
            /\ \A p \in Positions(b, "remove") :
                   /\ p > 1
                   /\ events[b][p - 1] = << "final" >>
                   /\ i[b] >= Len(query_terms)
            /\ ~Complete(b) => Positions(b, "remove") = {})
    /\ [][\A b \in Backends :
            /\ (Exists(checkpoint_file[b]) /\ ~Exists(checkpoint_file'[b]))
                   => /\ pc[b] = "clear"
                      /\ pc'[b] = "done"
                      /\ Exists(result_file[b])
                      /\ i[b] >= Len(query_terms)
            /\ (ConstructStep(b) /\ ~Exists(checkpoint_file[b]))
                   => /\ item_index'[b] = 0
                      /\ keyword_index'[b] = 0
                      /\ name_index'[b] = 0
                      /\ errors_reported'[b] = 0]_vars

C6_Witness ==
    \E b \in selected :
        /\ SearchReturned(b)
        /\ restarts[b] > 0
        /\ Positions(b, "remove") # {}
        /\ Exists(result_file[b])

\* The checkpoint most recently saved by this connector, as an event.
LastSave(b) ==
    LET saves == Positions(b, "save")
    IN  events[b][CHOOSE p \in saves : \A q \in saves : q <= p]

\* The file on disk is the one saved after the last completed cell, or the
\* one the constructor found when no cell was completed since.
CheckpointIsLastSaved(b) ==
    IF Positions(b, "save") = {}
    THEN checkpoint_file[b] = loaded[b]
    ELSE /\ Exists(checkpoint_file[b])
         /\ Content(checkpoint_file[b])[IndexKey(b)] = LastSave(b)[2]
         /\ Content(checkpoint_file[b])["name_index"] = LastSave(b)[3]
         /\ Content(checkpoint_file[b])["keyword_index"] = LastSave(b)[4]
         /\ Content(checkpoint_file[b])["total_saved_records"] = total_saved_records[b]

\* C7: an exception while a cell is run is reported once through the log
\* callback and the worker stops: no further request, no final output, the
\* checkpoint stays the one saved after the last completed cell, and a later
\* run resumes from it.
C7_FailureKeepsTheLastCheckpoint ==
    /\ [](\A b \in selected :
            /\ errors_reported[b] > 0 <=> pc[b] = "failed"
            /\ pc[b] = "failed" =>
                   /\ errors_reported[b] = 1
                   /\ stop_event[b]
                   /\ Positions(b, "final") = {}
                   /\ Positions(b, "remove") = {}
                   /\ ~Exists(result_file[b])
                   /\ CheckpointIsLastSaved(b))
    /\ [][\A b \in Backends :
            pc[b] = "failed" =>
                /\ checkpoint_file'[b] = checkpoint_file[b]
                /\ result_file'[b] = result_file[b]
                /\ answered'[b] = answered[b]
                /\ pc'[b] \in {"failed", "ready"}
                /\ pc'[b] = "failed" => request_log'[b] = request_log[b]
                /\ (pc'[b] = "ready" /\ Exists(checkpoint_file[b])) =>
                       /\ item_index'[b] = Content(checkpoint_file[b])[IndexKey(b)]
                       /\ keyword_index'[b] = Content(checkpoint_file[b])["keyword_index"]
                       /\ name_index'[b] = Content(checkpoint_file[b])["name_index"]]_vars

C7_Witness ==
    \E b \in selected :
        /\ pc[b] = "failed"
        /\ Positions(b, "save") # {}
        /\ item_results[b] # <<>>
        /\ errors_reported[b] = 1

\* The connector's fields are those of checkpoint document C.
FieldsAre(b, C) ==
    /\ item_index[b] = C[IndexKey(b)]
    /\ keyword_index[b] = C["keyword_index"]
    /\ name_index[b] = C["name_index"]
    /\ all_results[b] = C["all_results"]
    /\ total_saved_records[b] = C["total_saved_records"]
    /\ request_counter[b] = C["request_counter"]
    /\ request_log[b] = C["request_log"]

\* The state right after save_checkpoint.
JustSaved(b) ==
    /\ pc[b] = "kwloop"
    /\ events[b] # <<>>
    /\ LastEvent(b) = <<"save", i[b], checkpoint_name_index(b), j[b]>>

\* C8: the saved document holds the connector's state at the save, and a
\* connector constructed from a document has exactly its indices, results,
\* total, counter and log; without a file it starts empty.
C8_CheckpointRoundTrip ==
    \A b \in selected :
        /\ JustSaved(b) =>
               /\ Exists(checkpoint_file[b])
               /\ Content(checkpoint_file[b]) =
                      checkpoint_data(b, all_results[b], total_saved_records[b],
                                      i[b], j[b], checkpoint_name_index(b),
                                      request_counter[b], request_log[b])
        /\ pc[b] = "ready" =>
               IF Exists(checkpoint_file[b])
               THEN FieldsAre(b, Content(checkpoint_file[b]))
               ELSE FieldsAre(b, checkpoint_data(b, <<>>, 0, 0, 0, 0, 0, <<>>))

C8_Witness ==
    \E b \in selected :
        /\ pc[b] = "ready"
        /\ restarts[b] > 0
        /\ Positions(b, "save") = {}
        /\ Exists(checkpoint_file[b])
        /\ request_counter[b] > 0
        /\ request_counter[b] < Spent
        /\ total_saved_records[b] > 0
        /\ keyword_index[b] > 0

\* C9 as claimed: within one run the counter never decreases and the log
\* only grows.
C9_CounterAndLogMonotonic ==
    [][\A b \in Backends :
          ~ConstructStep(b) =>
              /\ request_counter'[b] >= request_counter[b]
              /\ IsPrefix(request_log[b], request_log'[b])]_vars

\* C9 amended: within one run the log only grows, and the counter never
\* decreases except that the budget pause of a budget-guarded backend sets
\* it to 0 once it has reached max_requests_per_day.
C9_CounterMonotonicUpToBudgetReset ==
    [][\A b \in Backends :
          ~ConstructStep(b) =>
              /\ IsPrefix(request_log[b], request_log'[b])
              /\ \/ request_counter'[b] >= request_counter[b]
                 \/ /\ Budgeted(b)
                    /\ request_counter[b] >= max_requests_per_day
                    /\ request_counter'[b] = 0]_vars

C9_Witness ==
    \E b \in selected :
        /\ Budgeted(b)
        /\ Len(request_log[b]) > max_requests_per_day
        /\ request_counter[b] = 1

\* C10: a connector constructed after an interruption has a counter not
\* below the requests answered since the counter was last zero, and a log
\* line for every request answered.
C10_ReloadDoesNotUnderCount ==
    \A b \in selected :
        (pc[b] = "ready" /\ restarts[b] > 0) =>
            /\ request_counter[b] >= issued[b]
            /\ Len(request_log[b]) >= answered[b]

\* ------------------------------------------------------ request accounting
\* The step issues a network request of backend b: its line is logged.
RequestStep(b) ==
    /\ ~ConstructStep(b)
    /\ request_log'[b] # request_log[b]

\* C11: every call that issues a network request, whatever its outcome,
\* appends exactly one line to request_log and increments request_counter
\* exactly once.
C11_EveryRequestLoggedAndCountedOnce ==
    [][\A b \in Backends :
          RequestStep(b) =>
              /\ Len(request_log'[b]) = Len(request_log[b]) + 1
              /\ request_counter'[b] = request_counter[b] + 1]_vars

\* C12: in the budget-guarded backends a request is issued only with the
\* counter below the budget and is logged as number counter + 1; the counter
\* never exceeds the budget; it drops only in the pause, taken when the
\* counter has reached the budget, which sets it to 0 before the pending
\* request is issued.
C12_PauseExactlyAtTheBudget ==
    /\ [](\A b \in selected :
            Budgeted(b) => request_counter[b] <= max_requests_per_day)
    /\ [][\A b \in Backends :
            Budgeted(b) =>
                /\ RequestStep(b) =>
                       /\ request_counter[b] < max_requests_per_day
                       /\ request_log'[b][Len(request_log'[b])].n = request_counter[b] + 1
                /\ (~ConstructStep(b) /\ request_counter'[b] < request_counter[b]) =>
                       /\ request_counter[b] >= max_requests_per_day
                       /\ request_counter'[b] = 0
                       /\ request_log'[b] = request_log[b]
                       /\ pc[b] \in {"request", "fetch"}
                       /\ pc'[b] = pc[b]
                /\ (pc[b] \in {"request", "fetch"}
                        /\ request_counter[b] >= max_requests_per_day) =>
                       (request_counter'[b] \in {request_counter[b], 0}
                            /\ request_log'[b] = request_log[b])]_vars

C12_Witness ==
    \E b \in selected :
        /\ Budgeted(b)
        /\ Len(request_log[b]) = max_requests_per_day + 1
        /\ request_log[b][max_requests_per_day].n = max_requests_per_day
        /\ request_log[b][max_requests_per_day + 1].n = 1
        /\ request_counter[b] = 1

\* C13: every network request is preceded by a pre-request delay made after
\* the previous request of the same backend.
C13_EveryRequestIsPrecededByADelay ==
    [][\A b \in Backends :
          RequestStep(b) => delays'[b] = delays[b] + 1]_vars

\* -------------------------------------------------------------- pagination
\* The requests issued for the current cell so far, as logged.
CellRequests(b) == SubSeq(request_log[b], cell_start[b] + 1, Len(request_log[b]))

\* The page states (offset or cursor) of the cell's requests to an endpoint.
PagesOf(b, endpoint) ==
    LET lines == SelectSeq(CellRequests(b), LAMBDA l : l.url[1] = endpoint)
    IN  [p \in 1..Len(lines) |-> lines[p].url[4]]

CeilDiv(n, d) == (n + d - 1) \div d

Max(m, n) == IF m >= n THEN m ELSE n

\* The pagination of the cell has ended and its records are about to be
\* merged, every response having been the stub's.
CellPaged(b) == pc[b] = "merge" /\ Deterministic(b)

\* C14: for a cell whose pages report the total T, the IEEE connector
\* requests the offsets 1, 26, 51, ... and stops after the first offset with
\* offset + 25 - 1 >= T: max(1, ceil(T / 25)) requests.
C14_OffsetPaginationIssuesCeilTOver25Requests ==
    \A b \in selected \cap {"IEEE"} :
        CellPaged(b) =>
            LET T == StubTotal(name(b), keyword(b))
                n == Max(1, CeilDiv(T, max_records))
            IN  /\ Len(CellRequests(b)) = n
                /\ PagesOf(b, "request") = [p \in 1..n |-> max_records * (p - 1) + 1]
                /\ max_records * (n - 1) + 1 + max_records - 1 >= T
                /\ \A p \in 1..(n - 1) : max_records * (p - 1) + 1 + max_records - 1 < T

C14_Witness ==
    \E b \in selected \cap {"IEEE"} :
        /\ CellPaged(b)
        /\ StubTotal(name(b), keyword(b)) = 30
        /\ PagesOf(b, "request") = << 1, 26 >>

\* C15: for a cell whose chain has n pages, the last one without a next
\* cursor, the Springer and Scopus connectors issue exactly n requests, each
\* to the cursor the previous page returned.
C15_CursorPaginationFollowsTheChain ==
    \A b \in selected :
        (Cursor(b) /\ CellPaged(b)) =>
            LET n == Max(1, StubSize(name(b), keyword(b)))
            IN  /\ Len(CellRequests(b)) = n
                /\ PagesOf(b, "request") = [p \in 1..n |-> p]
                /\ page[b] = None

C15_Witness ==
    \E b \in selected :
        /\ Cursor(b)
        /\ CellPaged(b)
        /\ StubSize(name(b), keyword(b)) = 2
        /\ PagesOf(b, "request") = << 1, 2 >>
        /\ Len(item_results[b]) = 2

\* The ids of the batch that starts at offset off.
Batch(b, off) ==
    SubSeq(pmids[b], off + 1,
           IF off + retmax < Len(pmids[b]) THEN off + retmax ELSE Len(pmids[b]))

RECURSIVE Batches(_, _)
Batches(b, offs) ==
    IF offs = <<>> THEN <<>>
    ELSE Batch(b, Head(offs)) \o Batches(b, Tail(offs))

\* The cell was left by "continue": begun, and the keyword loop is at the
\* next keyword with no checkpoint saved.
LeftWithoutIds(b) ==
    /\ pc[b] = "kwloop"
    /\ events[b] # <<>>
    /\ LastEvent(b) = << "cell", i[b], k[b], j[b] - 1 >>
    /\ Deterministic(b)

\* The requests of a PubMed cell with N ids on P non-empty id pages.
TwoPhase(b, N) ==
    LET P       == CeilDiv(N, retmax)
        reqs    == CellRequests(b)
        firstFetch == CHOOSE q \in 1..(Len(reqs) + 1) :
                          /\ \A p \in 1..(q - 1) : reqs[p].url[1] = "request"
                          /\ q <= Len(reqs) => reqs[q].url[1] = "fetch"
    IN  /\ PagesOf(b, "request") = [p \in 1..(P + 1) |-> retmax * (p - 1)]
        /\ PagesOf(b, "fetch") = [p \in 1..P |-> retmax * (p - 1)]
        /\ Len(reqs) = 2 * P + 1
        /\ firstFetch = P + 2
        /\ \A p \in firstFetch..Len(reqs) : reqs[p].url[1] = "fetch"

\* C16: a PubMed cell first searches ids at offsets 0, 100, 200, ... up to
\* the first empty page (P non-empty pages, P + 1 requests), and only then
\* fetches the N ids in ceil(N / 100) batches that hold every id once, in
\* order.
C16_TwoPhaseSearchThenFetch ==
    \A b \in selected \cap {"PubMed"} :
        /\ CellPaged(b) =>
               /\ pmids[b] = [p \in 1..StubIds(name(b), keyword(b)) |-> p]
               /\ TwoPhase(b, StubIds(name(b), keyword(b)))
               /\ Batches(b, PagesOf(b, "fetch")) = pmids[b]
        /\ LeftWithoutIds(b) =>
               /\ Len(CellRequests(b)) = 1
               /\ PagesOf(b, "request") = << 0 >>

C16_Witness ==
    \E b \in selected \cap {"PubMed"} :
        /\ CellPaged(b)
        /\ Len(pmids[b]) = 101
        /\ PagesOf(b, "request") = << 0, 100, 200 >>
        /\ PagesOf(b, "fetch") = << 0, 100 >>

\* ------------------------------------------------------ abnormal responses
\* The step is a request of a cursor backend answered with no data: a status
\* other than 200, or an empty body.
NoDataStep(b) ==
    /\ Cursor(b)
    /\ \/ non_200s'[b] > non_200s[b]
       \/ /\ no_data'[b] > no_data[b]
          /\ page'[b] = page[b]
          /\ pc'[b] # "failed"

\* C17: in the cursor backends a page request that yields no data is not
\* retried and no error is reported; the page loop ends with the records
\* gathered so far, they are merged, the checkpoint advances past the cell
\* and the keyword loop goes on.
C17_NoDataEndsTheCellGracefully ==
    /\ [][\A b \in Backends :
            NoDataStep(b) =>
                /\ pc'[b] = "merge"
                /\ item_results'[b] = item_results[b]
                /\ errors_reported'[b] = errors_reported[b]
                /\ Len(request_log'[b]) = Len(request_log[b]) + 1]_vars
    /\ [][\A b \in Backends :
            (Cursor(b) /\ pc[b] = "merge" /\ pc'[b] # "merge") =>
                /\ pc'[b] = "kwloop"
                /\ j'[b] = j[b] + 1
                /\ request_log'[b] = request_log[b]
                /\ total_saved_records'[b] =
                       total_saved_records[b] + Len(item_results[b])
                /\ Exists(checkpoint_file'[b])
                /\ Content(checkpoint_file'[b])["keyword_index"] = j[b] + 1
                /\ Content(checkpoint_file'[b])["all_results"] = all_results'[b]
                /\ errors_reported'[b] = 0]_vars

C17_Witness ==
    \E b \in selected :
        /\ Cursor(b)
        /\ JustSaved(b)
        /\ ~Deterministic(b)
        /\ page[b] = 2
        /\ Len(item_results[b]) = 1
        /\ Len(CellRequests(b)) = 2
        /\ errors_reported[b] = 0

\* C18: a response that was received but lacks the expected fields never
\* makes search() raise: no error is reported and the worker does not halt.
C18_MalformedResponseNeverHalts ==
    [][\A b \in Backends :
          no_data'[b] > no_data[b] =>
              /\ pc'[b] # "failed"
              /\ errors_reported'[b] = errors_reported[b]]_vars

\* ------------------------------------------------------------ cancellation
\* C19: after the stop signal was given to a live worker, the worker issues
\* at most the request that was in flight.
C19_NoRequestAfterStop ==
    \A b \in selected :
        stopped_at[b] >= 0 => Len(request_log[b]) <= stopped_at[b] + 1

\* ------------------------------------------------------------ fan-out/join
Terminated(b) == pc[b] \in {"done", "failed"}

\* C20: start_search starts one worker per checked backend, and the combined
\* request log is written only when every started worker has terminated.
C20_CombinedLogAfterEveryWorkerEnded ==
    /\ [](main_pc = "finished" =>
            /\ Range(api_threads) = selected
            /\ Len(api_threads) = Cardinality(selected)
            /\ Exists(combined_log)
            /\ \A b \in selected : Terminated(b))
    /\ [][combined_log' # combined_log =>
            /\ Range(api_threads) = selected
            /\ \A b \in selected : Terminated(b) /\ pc'[b] = pc[b]
            /\ Len(Content(combined_log')) = Cardinality(selected)]_vars

C20_Witness ==
    /\ main_pc = "finished"
    /\ Cardinality(selected) = 2
    /\ \E b \in selected : pc[b] = "done" /\ thread_request_log[b] # <<>>
    /\ \E b \in selected : pc[b] = "failed"
    /\ Len(Content(combined_log)) = 2

\* C21: the combined request log written after the join is the concatenation,
\* in the order the workers were started, of the request_log of each started
\* backend's connector, also for a worker that halted on an error.
C21_CombinedLogHoldsEveryConnectorLog ==
    [][combined_log' # combined_log =>
          /\ Exists(combined_log')
          /\ Content(combined_log') =
                 [p \in 1..Len(api_threads) |-> request_log[api_threads[p]]]]_vars

\* --------------------------------------------------------------- isolation
\* What belongs to one backend: its connector's fields and its two files.
BackendState(b) ==
    << item_index[b], keyword_index[b], name_index[b], all_results[b],
       total_saved_records[b], request_counter[b], request_log[b],
       checkpoint_file[b], result_file[b] >>

\* The step is one of the worker of backend b.
WorkerStep(b) ==
    /\ pc[b] \notin {"idle", "done", "failed"}
    /\ \/ pc'[b] # pc[b]
       \/ BackendState(b)' # BackendState(b)
       \/ << i[b], j[b], k[b], page[b] >>' # << i[b], j[b], k[b], page[b] >>

\* C22: the backends name distinct checkpoint and result files, and a step
\* of one backend's worker leaves the fields and the files of every other
\* backend as they were.
C22_BackendsShareNoState ==
    /\ [](\A b, c \in Backends :
              /\ b # c => /\ checkpoint_path(b) # checkpoint_path(c)
                          /\ result_path(b) # result_path(c)
              /\ checkpoint_path(b) # result_path(c))
    /\ [][\A b, c \in Backends :
            (b # c /\ WorkerStep(b)) => BackendState(c)' = BackendState(c)]_vars

\* Both workers are in the middle of their searches, each with a checkpoint
\* of its own on disk that the other's save left alone.
C22_Witness ==
    /\ Cardinality(selected) = 2
    /\ \A b \in selected :
          /\ pc[b] = "kwloop"
          /\ events[b] # <<>>
          /\ LastEvent(b)[1] = "save"
          /\ Exists(checkpoint_file[b])
          /\ Content(checkpoint_file[b])["request_log"] = request_log[b]
          /\ Len(request_log[b]) > Spent
    /\ \E b, c \in selected : request_log[b] # request_log[c]

\* --------------------------------------------------------------- callbacks
Alive(b) == pc[b] \notin {"idle", "done", "failed"}

\* C23: an update of the window that a callback causes is made by the main
\* thread, never by a worker thread while another worker is running.
C23_WindowUpdatedOnlyByTheMainThread ==
    [][(shown' # shown /\ \E b, c \in selected : b # c /\ Alive(b) /\ Alive(c))
          => set_by' = "main"]_vars

\* The step is a request of backend b that was answered and counted.
AnsweredStep(b) == RequestStep(b) /\ request_counter'[b] = request_counter[b] + 1

\* C24: every page request of every backend, the last page of a cell and the
\* id-search requests included, is followed by one call of the progress
\* callback, with the cumulative request counter as argument.
C24_ProgressFiresOncePerRequest ==
    [][\A b \in Backends :
          AnsweredStep(b) =>
              /\ progress_calls'[b] = progress_calls[b] + 1
              /\ progress_bar' = request_counter'[b]]_vars

\* The terms that the requests logged by the connector of b were made for:
\* the primary terms with a name in a logged request, and the keywords of
\* the logged requests.
loaded_lines(b) ==
    IF Exists(loaded[b]) THEN Len(Content(loaded[b])["request_log"]) ELSE 0

NameOf(line) == line.url[2]
KeywordOf(line) == << line.url[3] >>

UsedTerms(b) ==
    { t \in Range(query_terms) :
          \E p \in (loaded_lines(b) + 1)..Len(request_log[b]) :
              NameOf(request_log[b][p]) \in Range(split(t)) }
    \cup { KeywordOf(request_log[b][p]) :
               p \in (loaded_lines(b) + 1)..Len(request_log[b]) }

Occurrences(seq, e) == Cardinality({ p \in 1..Len(seq) : seq[p] = e })

\* C25: when a worker has ended, save_terms_callback has been called once
\* for each term that one of its requests used, and for no other term.
C25_TermObservedOncePerUsedTerm ==
    \A b \in selected :
        pc[b] \in {"done", "failed"} =>
            /\ \A t \in UsedTerms(b) : Occurrences(terms_observed[b], t) = 1
            /\ Range(terms_observed[b]) \subseteq UsedTerms(b)

\* ---------------------------------------------------------- term expansion
\* names[1] or names[2] or ... as one sequence of words
RECURSIVE JoinOr(_)
JoinOr(names) ==
    IF Len(names) = 1 THEN names[1]
    ELSE names[1] \o << "or" >> \o JoinOr(Tail(names))

\* {kw: [] for kw in keywords} under "Records", and a total of 0
IsEmptyGrid(e, kws) ==
    /\ DOMAIN e = {"Total records", "Records"}
    /\ e["Total records"] = 0
    /\ DOMAIN e["Records"] = Range(kws)
    /\ \A kw \in Range(kws) : e["Records"][kw] = <<>>

\* C26: the bias names of a primary term are its parts between the words
\* "or" (lower case only), in order; the term's entry is a flat grid, one
\* cell per keyword, exactly when there is one name, and otherwise holds one
\* such grid per name.
C26_TermExpansion ==
    expansion # <<>> =>
        LET names == expansion.bias_names
            e     == expansion.all_results[term]
        IN  /\ Len(names) >= 1
            /\ JoinOr(names) = term
            /\ \A n \in 1..Len(names) :
                   /\ names[n] # <<>>
                   /\ \A p \in 2..(Len(names[n]) - 1) : names[n][p] # "or"
            /\ DOMAIN expansion.all_results = {term}
            /\ IF Len(names) = 1
               THEN IsEmptyGrid(e, keywords)
               ELSE /\ e["Total records"] = 0
                    /\ DOMAIN e["Records"] = Range(names)
                    /\ \A n \in 1..Len(names) :
                           IsEmptyGrid(e["Records"][names[n]], keywords)
            /\ term = << "A", "or", "B", "or", "C" >> =>
                   names = << <<"A">>, <<"B">>, <<"C">> >>
            /\ term = << "A" >> => names = << <<"A">> >>
            /\ term = << "A", "OR", "B" >> => names = << term >>

C26_Witness ==
    /\ term = << "A", "or", "B", "or", "C" >>
    /\ expansion # <<>>
    /\ expansion.bias_names = << <<"A">>, <<"B">>, <<"C">> >>
    /\ DOMAIN expansion.all_results[term]["Records"] = { <<"A">>, <<"B">>, <<"C">> }

\* ------------------------------------------------------------ empty records
\* The entry supplies a value with content for none of the fields.
FullyEmpty(e) == \A f \in DOMAIN e \cap Fields : ~Truthy(e[f])

Extracted(b) == records # <<>> /\ records.backend = b

\* C27: the Scopus connector keeps a record only if one of its fields has
\* content; an entry that supplies no value for any field yields no record.
C27_ScopusDropsEmptyRecords ==
    Extracted("Scopus") =>
        /\ \A p \in 1..Len(records.out) : AnyValue(records.out[p])
        /\ FullyEmpty(entry) => records.out = <<>>

\* C28: the IEEE, Springer and PubMed connectors make a record of every
\* entry, also of one whose fields are all absent or empty.
C28_OnlyScopusDropsEmptyRecords ==
    \A b \in {"IEEE", "Springer", "PubMed"} :
        Extracted(b) => Len(records.out) = 1

\* ------------------------------------------------------------- index reset
\* The outer loop of b moves on from one primary term to the next one.
NextTermStep(b) ==
    /\ pc[b] = "endterm"
    /\ pc'[b] = "outer"
    /\ i'[b] = i[b] + 1
    /\ i'[b] < Len(query_terms)

\* C29: whenever the outer loop moves on to the next primary term,
\* keyword_index and name_index are both 0.
C29_IndicesResetBeforeNextTerm ==
    [][\A b \in Backends :
          NextTermStep(b) => keyword_index'[b] = 0 /\ name_index'[b] = 0]_vars

\* -------------------------------------------------------- crash consistency
RECURSIVE SumTotals(_, _)
SumTotals(ar, items) ==
    IF items = {} THEN 0
    ELSE LET t == CHOOSE t \in items : TRUE
         IN  ar[t]["Total records"] + SumTotals(ar, items \ {t})

\* The document has the keys the constructor reads and its total is the
\* number of records its all_results holds.
SelfConsistent(b, doc) ==
    /\ {"all_results", "total_saved_records", IndexKey(b), "keyword_index",
        "name_index"} \subseteq DOMAIN doc
    /\ doc["total_saved_records"] =
           SumTotals(doc["all_results"], DOMAIN doc["all_results"])

\* C30: at every instant the checkpoint file is absent or holds one complete
\* document that load_checkpoint can read and that is consistent in itself,
\* whenever the process may stop.
C30_CheckpointAlwaysLoadable ==
    \A b \in selected :
        Exists(checkpoint_file[b]) =>
            /\ Decodes(checkpoint_file[b])
            /\ SelfConsistent(b, Content(checkpoint_file[b]))

\* ------------------------------------------------------------- termination
\* A start that finds the checkpoint an interrupted earlier process left
\* after its first cell, with one or two primary terms entered.
InitLeftover ==
    /\ query_terms \in SeqsUpTo(TermPool, MaxTerms) \ { <<>> }
    /\ keywords \in { s \in SeqsUpTo(KeywordPool, MaxKeywords) :
                         Len(s) >= 1 /\ s[1] = "x" }
    /\ checkpoint_file = [b \in Backends |->
            IF b \in selected THEN Leftover(b, query_terms, keywords) ELSE NoFile]
    /\ merged = [b \in Backends |->
            IF b \in selected
            THEN Len(CellRecords(split(query_terms[1])[1], keywords[1])) ELSE 0]
    /\ issued = [b \in Backends |-> IF b \in selected THEN Spent ELSE 0]
    /\ answered = [b \in Backends |-> IF b \in selected THEN Spent ELSE 0]

InitFinish ==
    /\ InitCommon
    /\ \/ InitFresh
       \/ InitLeftover

\* The steps of a search in which no request raises and every body has the
\* fields the page loop reads.
NextFinish ==
    \/ \E b \in Backends :
        \/ Construct(b)
        \/ StartSearch(b)
        \/ BeginTerm(b)
        \/ NameLoop(b)
        \/ BeginCell(b)
        \/ EndKeywords(b)
        \/ EndTerm(b)
        \/ Pause(b)
        \/ call_api(b)
        \/ get_data_from_url(b)
        \/ non_200(b)
        \/ empty_response(b)
        \/ esearch(b)
        \/ efetch(b)
        \/ CompleteCell(b)
        \/ WriteFinal(b)
        \/ RemoveCheckpoint(b)
    \/ combine_and_save_logs

\* The worker thread and the main thread are scheduled, every response
\* arrives and time.sleep returns: a step that stays possible is taken.
SpecFinish == InitFinish /\ [][NextFinish]_vars /\ WF_vars(NextFinish)

\* search() returned: final document on disk, checkpoint gone.
SearchFinished(b) ==
    /\ pc[b] = "done"
    /\ Exists(result_file[b])
    /\ ~Exists(checkpoint_file[b])

\* The cells this run had to run: all of them, or the ones that follow the
\* cell of the checkpoint it started from.
CellsDue(b) ==
    IF Exists(loaded[b]) THEN CellsAfter(b, Content(loaded[b])) ELSE AllCells

\* search() eventually returns, whatever cells it ran.
SearchReturns == \A b \in Backends : b \in selected ~> SearchFinished(b)

\* A fresh run that returned has run every cell.
FreshRunRunsEveryCell ==
    \A b \in selected :
        (SearchFinished(b) /\ ~Exists(loaded[b])) => CellsRun(b) = AllCells

\* C31: with finite result sets and no request raising, search() eventually
\* finishes for every backend: every cell is run, the final document is
\* written and the checkpoint file is removed.
C31_SearchEventuallyFinishes ==
    \A b \in Backends :
        b \in selected ~> (SearchFinished(b) /\ CellsRun(b) = CellsDue(b))

\* ------------------------------------------------- the unguarded connector
\* C32: the IEEE connector has no budget guard: within a run its request
\* counter is never set back, no step of it is a pause (a step at a request
\* that leaves the log as it is), and a request is issued whatever value
\* the counter has, max_requests_per_day and beyond included.
C32_OffsetBackendHasNoBudgetGuard ==
    [][(~ConstructStep("IEEE")) =>
          /\ request_counter'["IEEE"] >= request_counter["IEEE"]
          /\ issued'["IEEE"] >= issued["IEEE"]
          /\ (pc["IEEE"] = "request" /\ pc'["IEEE"] # "failed") =>
                 /\ request_counter'["IEEE"] = request_counter["IEEE"] + 1
                 /\ Len(request_log'["IEEE"]) = Len(request_log["IEEE"]) + 1]_vars

C32_Witness ==
    /\ selected = {"IEEE"}
    /\ request_counter["IEEE"] > max_requests_per_day
    /\ Len(request_log["IEEE"]) = request_counter["IEEE"]
    /\ request_log["IEEE"][Len(request_log["IEEE"])].n = request_counter["IEEE"]

\* ------------------------------------------------------ totals and records
\* The number of records a flat entry holds under its keywords.
RECURSIVE HeldFlat(_, _)
HeldFlat(e, kws) ==
    IF kws = {} THEN 0
    ELSE LET kw == CHOOSE kw \in kws : TRUE
         IN  Len(e["Records"][kw]) + HeldFlat(e, kws \ {kw})

\* The number of records a nested entry holds under its names.
RECURSIVE HeldNested(_, _)
HeldNested(e, names) ==
    IF names = {} THEN 0
    ELSE LET n == CHOOSE n \in names : TRUE
         IN  HeldFlat(e["Records"][n], DOMAIN e["Records"][n]["Records"])
             + HeldNested(e, names \ {n})

Held(ar, t) ==
    IF Len(split(t)) = 1 THEN HeldFlat(ar[t], DOMAIN ar[t]["Records"])
    ELSE HeldNested(ar[t], DOMAIN ar[t]["Records"])

RECURSIVE HeldAll(_, _)
HeldAll(ar, items) ==
    IF items = {} THEN 0
    ELSE LET t == CHOOSE t \in items : TRUE
         IN  Held(ar, t) + HeldAll(ar, items \ {t})

\* Every "Total records" of the map is the number of records held under it,
\* and total is the number of records held in the whole map.
TotalsAgree(ar, total) ==
    /\ \A t \in DOMAIN ar :
          /\ ar[t]["Total records"] = Held(ar, t)
          /\ Len(split(t)) > 1 =>
                \A n \in DOMAIN ar[t]["Records"] :
                    ar[t]["Records"][n]["Total records"] =
                        HeldFlat(ar[t]["Records"][n],
                                 DOMAIN ar[t]["Records"][n]["Records"])
    /\ total = HeldAll(ar, DOMAIN ar)

\* No primary term and no keyword is entered twice.
NoRepeats ==
    /\ Cardinality(Range(query_terms)) = Len(query_terms)
    /\ Cardinality(Range(keywords)) = Len(keywords)

\* C33: in every saved checkpoint and in the final document the stored
\* totals agree with the stored records, for every backend and any term
\* lists, lists with a repeated term or keyword included.
C33_TotalsAgreeWithRecords ==
    \A b \in selected :
        /\ Exists(checkpoint_file[b]) =>
               TotalsAgree(Content(checkpoint_file[b])["all_results"],
                           Content(checkpoint_file[b])["total_saved_records"])
        /\ Exists(result_file[b]) =>
               TotalsAgree(Content(result_file[b])["Biases"],
                           Content(result_file[b])["Total"])

\* ------------------------------------------------------- counter in range
InBudget(n) == 0 <= n /\ n <= max_requests_per_day

\* C34: in the budget-guarded backends the request counter stays within
\* 0..max_requests_per_day in every state of a run started fresh or from a
\* checkpoint the program wrote, and so does the counter every checkpoint
\* on disk stores.
C34_CounterWithinTheBudget ==
    \A b \in selected :
        Budgeted(b) =>
            /\ InBudget(request_counter[b])
            /\ Exists(checkpoint_file[b]) =>
                   InBudget(Content(checkpoint_file[b])["request_counter"])

C34_Witness ==
    \E b \in selected :
        /\ Budgeted(b)
        /\ request_counter[b] = max_requests_per_day
        /\ Positions(b, "save") # {}
        /\ Exists(checkpoint_file[b])
        /\ Content(checkpoint_file[b])["request_counter"] = max_requests_per_day

\* ------------------------------------------------------------ fresh order
\* The sum over the primary terms from ii on of names times keywords.
RECURSIVE NumCellsFrom(_)
NumCellsFrom(ii) ==
    IF ii >= Len(query_terms) THEN 0
    ELSE Len(split(query_terms[ii + 1])) * Len(keywords) + NumCellsFrom(ii + 1)

\* The run of b started with no checkpoint on disk.
FreshRun(b) == Constructed(b) /\ ~Exists(loaded[b])

StrictlyIncreasing(cells) ==
    \A p \in 1..(Len(cells) - 1) : Before(cells[p], cells[p + 1])

\* C35: a run that starts with no checkpoint runs the cells in lexicographic
\* order of (term index, name index, keyword index), each cell once, and by
\* the time search() has left its loops it has run as many cells as the sum
\* over the terms of names times keywords.
C35_FreshRunVisitsEveryCellInOrder ==
    \A b \in selected :
        FreshRun(b) =>
            /\ StrictlyIncreasing(CellsRun(b))
            /\ IsPrefix(CellsRun(b), AllCells)
            /\ pc[b] \in {"clear", "done"} =>
                   /\ CellsRun(b) = AllCells
                   /\ Len(CellsRun(b)) = NumCellsFrom(0)

C35_Witness ==
    \E b \in selected :
        /\ FreshRun(b)
        /\ pc[b] = "done"
        /\ Len(query_terms) = 2
        /\ Len(split(query_terms[2])) = 2
        /\ Len(keywords) = 2
        /\ Len(CellsRun(b)) = 6

\* -------------------------------------------------------- request numbers
\* The numbers of two successive lines of a log follow on: one more, or 1
\* after the budget pause that reset the counter at max_requests_per_day.
FollowsOn(b, m, n) ==
    \/ n = m + 1
    \/ Budgeted(b) /\ m = max_requests_per_day /\ n = 1

NumberedInSequence(b) ==
    \A p \in 1..(Len(request_log[b]) - 1) :
        FollowsOn(b, request_log[b][p].n, request_log[b][p + 1].n)

\* Every appended line carries the counter read before the request, plus 1.
NumberedFromCounter ==
    [][\A b \in Backends :
          RequestStep(b) =>
              request_log'[b][Len(request_log'[b])].n = request_counter[b] + 1]_vars

\* C36: for every backend the numbers on successive lines of request_log
\* increase by exactly 1 between two counter resets, so no two lines of one
\* budget period carry the same number.
C36_LogLinesNumberedInSequence ==
    \A b \in selected : NumberedInSequence(b)

\* ------------------------------------------------------- the first request
\* The first request does not depend on the branch that built it.
BranchIndependent(r) ==
    /\ r.url = initial_url(r.backend, TRUE, r.name, r.keyword)
    /\ r.url = initial_url(r.backend, FALSE, r.name, r.keyword)

\* C37: for every backend the first request of a cell is the same for a
\* (name, keyword) pair whether the name came from a single-name term or
\* from a multi-name term, page-size and start parameters included.
C37_FirstRequestDependsOnNameAndKeywordOnly ==
    first_request # <<>> => BranchIndependent(first_request)

\* ------------------------------------------------------- searched terms
\* One or two checkboxes checked, no primary term and one or two keywords
\* entered, no file on disk: every search() returns without a request and
\* the workers go on to save the terms.
InitSave ==
    /\ selected \in { S \in SUBSET Backends : Cardinality(S) \in {1, 2} }
    /\ InitState
    /\ NoBench
    /\ query_terms = <<>>
    /\ keywords \in SeqsUpTo(KeywordPool, MaxKeywords) \ { <<>> }
    /\ checkpoint_file = [b \in Backends |-> NoFile]
    /\ merged = [b \in Backends |-> 0]
    /\ issued = [b \in Backends |-> 0]
    /\ answered = [b \in Backends |-> 0]

\* search() has returned with no checkpoint to remove: run() copies the
\* connector's request log and enters its loop over the terms.
search_returns(b) ==
    /\ pc[b] = "clear"
    /\ ~Exists(checkpoint_file[b])
    /\ all_terms # <<>>
    /\ thread_request_log' = Upd(thread_request_log, b, request_log[b])
    /\ save_index' = Upd(save_index, b, 0)
    /\ save_passed' = Upd(save_passed, b, FALSE)
    /\ pc' = Upd(pc, b, "saving")
    /\ UNCHANGED << inputs, fields, files, locals, stop_event, ghosts, trail,
                    main_pc, api_threads, combined_log, ui, bench, searched_terms >>

\* Where the worker is once the term at save_index is dealt with.
AfterTerm(b) == IF save_index[b] + 1 >= Len(all_terms) THEN "done" ELSE "saving"

\* The worker thread calls save_searched_term(term) and evaluates
\* `term not in self.searched_terms`.
save_searched_term_test(b) ==
    /\ pc[b] = "saving"
    /\ ~save_passed[b]
    /\ terms_observed' = Upd(terms_observed, b,
            Append(terms_observed[b], all_terms[save_index[b] + 1]))
    /\ IF all_terms[save_index[b] + 1] \in Range(searched_terms)
       THEN /\ save_index' = Upd(save_index, b, save_index[b] + 1)
            /\ pc' = Upd(pc, b, AfterTerm(b))
            /\ UNCHANGED save_passed
       ELSE /\ save_passed' = Upd(save_passed, b, TRUE)
            /\ UNCHANGED << save_index, pc >>
    /\ UNCHANGED << inputs, fields, files, locals, stop_event, ghosts, trail,
                    main, shown, bench, searched_terms >>

\* The worker thread, having passed the test, runs
\* self.searched_terms.append(term).
save_searched_term_append(b) ==
    /\ pc[b] = "saving"
    /\ save_passed[b]
    /\ searched_terms' = Append(searched_terms, all_terms[save_index[b] + 1])
    /\ save_passed' = Upd(save_passed, b, FALSE)
    /\ save_index' = Upd(save_index, b, save_index[b] + 1)
    /\ pc' = Upd(pc, b, AfterTerm(b))
    /\ UNCHANGED << inputs, fields, files, locals, stop_event, ghosts, trail,
                    main, ui, bench >>

NextSave ==
    \/ \E b \in Backends :
        \/ Construct(b)
        \/ StartSearch(b)
        \/ WriteFinal(b)
        \/ search_returns(b)
        \/ save_searched_term_test(b)
        \/ save_searched_term_append(b)
    \/ combine_and_save_logs

\* The workers' calls of save_searched_term, one bytecode-level step at a
\* time, side by side.
SpecSave == InitSave /\ [][NextSave]_vars

NoDuplicates(list) ==
    \A p, q \in 1..Len(list) : p # q => list[p] # list[q]

\* A worker saving the terms alone ends with the list its uninterrupted loop
\* computes.
AloneSavesOnce ==
    \A b \in selected :
        (selected = {b} /\ pc[b] = "done") =>
            /\ NoDuplicates(searched_terms)
            /\ searched_terms = save_terms(<<>>, all_terms)

\* C38: with several workers calling save_searched_term concurrently, the
\* searched_terms list never holds the same term twice, whatever the
\* interleaving of the membership test and the append.
C38_SearchedTermsHasNoDuplicates ==
    NoDuplicates(searched_terms)

====
